---- MODULE Spec2Model ----
(***************************************************************************)
(* Model of the appointment scheduler pipeline (src/app): text            *)
(* acquisition, entity extraction, date/time normalization, department    *)
(* canonicalization and the HTTP handlers that chain them.                *)
(*                                                                         *)
(* Strings are sequences of one-character strings.  Confidence scores are *)
(* integers: a score s in [0,1] rounded to two decimals is the integer    *)
(* 100*s, and the intermediate products are kept exactly in units of      *)
(* 1e-5 (Unit).  An Optional value is a tuple: <<>> for Python's None and *)
(* <<v>> for the value v.                                                  *)
(***************************************************************************)
EXTENDS Integers, Sequences, FiniteSets, TLC

\* Optional[T]: None and a present value
None == <<>>

Some(v) == <<v>>

\* the value of a present Optional
Val(o) == o[1]

\* the absence of an exception, of a message, of a field
NoExc == "-"

(***************************************************************************)
(* Character classes and str methods                                       *)
(***************************************************************************)
UpperLetters == <<"A","B","C","D","E","F","G","H","I","J","K","L","M",
                  "N","O","P","Q","R","S","T","U","V","W","X","Y","Z">>

LowerLetters == <<"a","b","c","d","e","f","g","h","i","j","k","l","m",
                  "n","o","p","q","r","s","t","u","v","w","x","y","z">>

DigitChars == <<"0","1","2","3","4","5","6","7","8","9">>

Range(f) == {f[i] : i \in DOMAIN f}

\* str.isspace() for one character
IsSpace(c) == c \in {" ", "\n", "\t"}

\* str.isalnum() for one character
IsAlnum(c) == c \in Range(UpperLetters) \cup Range(LowerLetters) \cup Range(DigitChars)

IsUpperCh(c) == c \in Range(UpperLetters)

IsLowerCh(c) == c \in Range(LowerLetters)

LowerCh(c) ==
    IF IsUpperCh(c)
    THEN LowerLetters[CHOOSE i \in DOMAIN UpperLetters : UpperLetters[i] = c]
    ELSE c

UpperCh(c) ==
    IF IsLowerCh(c)
    THEN UpperLetters[CHOOSE i \in DOMAIN LowerLetters : LowerLetters[i] = c]
    ELSE c

\* str.lower()
Lower(s) == [i \in 1..Len(s) |-> LowerCh(s[i])]

\* str.title(): a cased character is upper-cased when it follows an uncased
\* character (or starts the string) and lower-cased otherwise
Title(s) ==
    [i \in 1..Len(s) |->
        IF i = 1 \/ ~(IsUpperCh(s[i-1]) \/ IsLowerCh(s[i-1]))
        THEN UpperCh(s[i])
        ELSE LowerCh(s[i])]

\* str.strip()
Strip(s) ==
    LET nonsp == {i \in 1..Len(s) : ~IsSpace(s[i])}
    IN  IF nonsp = {} THEN <<>>
        ELSE LET lo == CHOOSE i \in nonsp : \A j \in nonsp : i <= j
                 hi == CHOOSE i \in nonsp : \A j \in nonsp : i >= j
             IN  SubSeq(s, lo, hi)

\* `a in b` for strings
IsSubstr(a, b) ==
    \E i \in 0..(Len(b) - Len(a)) : SubSeq(b, i + 1, i + Len(a)) = a

\* number of words of str.split(): maximal runs of non-whitespace
NumWords(s) ==
    Cardinality({i \in 1..Len(s) : ~IsSpace(s[i]) /\ (i = 1 \/ IsSpace(s[i-1]))})

\* total length of the words of str.split()
WordChars(s) == Cardinality({i \in 1..Len(s) : ~IsSpace(s[i])})

\* "sep".join(parts)
RECURSIVE Join(_, _)
Join(parts, sep) ==
    IF Len(parts) = 0 THEN <<>>
    ELSE IF Len(parts) = 1 THEN parts[1]
    ELSE parts[1] \o sep \o Join(Tail(parts), sep)

\* re.sub(r"\s+", " ", text) followed by strip()
RECURSIVE CollapseSpace(_)
CollapseSpace(s) ==
    IF Len(s) = 0 THEN <<>>
    ELSE IF IsSpace(s[1])
         THEN IF Len(s) > 1 /\ IsSpace(s[2])
              THEN CollapseSpace(Tail(s))
              ELSE <<" ">> \o CollapseSpace(Tail(s))
         ELSE <<s[1]>> \o CollapseSpace(Tail(s))

clean_ocr_text(text) == Strip(CollapseSpace(text))

(***************************************************************************)
(* Confidence scoring (app/utils/confidence.py)                            *)
(***************************************************************************)
\* one hundredth, the resolution of round(x, 2), in units of 1e-5
Unit == 1000

MIN_OCR_CONFIDENCE == 50

MIN_EXTRACTION_CONFIDENCE == 60

MIN_NORMALIZATION_CONFIDENCE == 70

\* The scores are binary64 products.  An exact product that is a decimal
\* tie (k + 0.5 hundredths) is not a tie in binary64: it lies just above or
\* just below, depending on the operands.  These are the <<starting value,
\* exact product>> pairs, both in units of 1e-5, whose binary64 product lies
\* above the tie, for every starting value that is a whole number of
\* hundredths; all other decimal ties lie below (0.9 * 0.95 = 0.855 -> 0.85).
TiesAbove ==
    {<<1000, 500>>, <<5000, 2500>>, <<7000, 3500>>, <<11000, 5500>>,
     <<13000, 6500>>, <<17000, 8500>>, <<19000, 9500>>, <<23000, 11500>>,
     <<27000, 13500>>, <<33000, 16500>>, <<39000, 19500>>, <<45000, 22500>>,
     <<45000, 31500>>, <<45000, 13500>>, <<51000, 25500>>, <<53000, 26500>>,
     <<55000, 27500>>, <<55000, 38500>>, <<55000, 16500>>, <<63000, 31500>>,
     <<65000, 32500>>, <<65000, 19500>>, <<67000, 33500>>, <<75000, 37500>>,
     <<77000, 38500>>, <<79000, 39500>>, <<81000, 40500>>, <<85000, 25500>>,
     <<89000, 44500>>, <<90000, 31500>>, <<91000, 45500>>, <<93000, 46500>>}

\* round(min(max(x, 0.0), 1.0), 2) of the product x that started from base
Round2(base, x) ==
    LET c == IF x < 0 THEN 0 ELSE IF x > 100 * Unit THEN 100 * Unit ELSE x
    IN  IF c % Unit = Unit \div 2
        THEN IF <<base, c>> \in TiesAbove THEN c \div Unit + 1 ELSE c \div Unit
        ELSE (c + Unit \div 2) \div Unit

\* the two penalties of the special characters exchanged
calculate_ocr_confidence_swapped(text0, original_confidence) ==
    IF Len(Strip(text0)) = 0 THEN 0
    ELSE
    LET text    == Strip(text0)
        base    == IF original_confidence # None THEN Val(original_confidence) ELSE 80 * Unit
        special == Cardinality({i \in 1..Len(text) :
                                  ~IsAlnum(text[i]) /\ ~IsSpace(text[i])})
        c1      == IF 10 * special > 3 * Len(text) THEN (base * 8) \div 10
                   ELSE IF 100 * special > 15 * Len(text) THEN (base * 6) \div 10
                   ELSE base
        nw      == NumWords(text)
        c2      == IF nw > 0 /\ (WordChars(text) < 2 * nw \/ WordChars(text) > 15 * nw)
                   THEN (c1 * 7) \div 10
                   ELSE c1
        c3      == IF Len(text) < 5 THEN (c2 * 5) \div 10 ELSE c2
    IN  Round2(base, c3)

\* calculate_ocr_confidence(text, original_confidence); original_confidence
\* is None or Some value in units of 1e-5
calculate_ocr_confidence(text0, original_confidence) ==
    IF Len(Strip(text0)) = 0 THEN 0
    ELSE
    LET text    == Strip(text0)
        base    == IF original_confidence # None THEN Val(original_confidence) ELSE 80 * Unit
        special == Cardinality({i \in 1..Len(text) :
                                  ~IsAlnum(text[i]) /\ ~IsSpace(text[i])})
        \* special / len > 0.3  and  special / len > 0.15
        c1      == IF 10 * special > 3 * Len(text) THEN (base * 6) \div 10
                   ELSE IF 100 * special > 15 * Len(text) THEN (base * 8) \div 10
                   ELSE base
        nw      == NumWords(text)
        \* avg_word_len < 2 or avg_word_len > 15
        c2      == IF nw > 0 /\ (WordChars(text) < 2 * nw \/ WordChars(text) > 15 * nw)
                   THEN (c1 * 7) \div 10
                   ELSE c1
        c3      == IF Len(text) < 5 THEN (c2 * 5) \div 10 ELSE c2
    IN  Round2(base, c3)

\* sum([has_date, has_time, has_department])
FoundCount(has_date, has_time, has_department) ==
    (IF has_date THEN 1 ELSE 0) + (IF has_time THEN 1 ELSE 0)
        + (IF has_department THEN 1 ELSE 0)

\* the department left out of the sum
calculate_extraction_confidence_noDepartment(has_date, has_time, has_department) ==
    LET found_count == FoundCount(has_date, has_time, FALSE)
    IN  IF found_count = 3 THEN 95
        ELSE IF found_count = 2 THEN 85
        ELSE IF found_count = 1 THEN 70
        ELSE 40

\* calculate_extraction_confidence(entities, has_date, has_time, has_department)
calculate_extraction_confidence(has_date, has_time, has_department) ==
    LET found_count == FoundCount(has_date, has_time, has_department)
    IN  IF found_count = 3 THEN 95
        ELSE IF found_count = 2 THEN 85
        ELSE IF found_count = 1 THEN 70
        ELSE 40

\* the penalty of a relative date taken as 0.75 for 0.95
calculate_normalization_confidence_harsh(date_parsed, time_parsed, is_relative) ==
    IF ~date_parsed /\ ~time_parsed THEN 0
    ELSE
    LET c0 == 90 * Unit
        c1 == IF ~date_parsed THEN (c0 * 5) \div 10 ELSE c0
        c2 == IF ~time_parsed THEN (c1 * 7) \div 10 ELSE c1
        c3 == IF is_relative THEN (c2 * 75) \div 100 ELSE c2
    IN  Round2(c0, c3)

\* calculate_normalization_confidence(date_parsed, time_parsed, is_relative)
calculate_normalization_confidence(date_parsed, time_parsed, is_relative) ==
    IF ~date_parsed /\ ~time_parsed THEN 0
    ELSE
    LET c0 == 90 * Unit
        c1 == IF ~date_parsed THEN (c0 * 5) \div 10 ELSE c0
        c2 == IF ~time_parsed THEN (c1 * 7) \div 10 ELSE c1
        c3 == IF is_relative THEN (c2 * 95) \div 100 ELSE c2
    IN  Round2(c0, c3)

(***************************************************************************)
(* Process-wide state, fixed at import time, and the request in progress  *)
(***************************************************************************)
VARIABLES
    tesseract_available,  \* ocr_service.TESSERACT_AVAILABLE
    genai_installed,      \* `import google.generativeai` succeeded
    api_key_set,          \* settings.gemini_api_key is non-empty
    settings,             \* the thresholds of get_settings(), read from the environment
    req,                  \* the request being served and what its collaborators answer
    resp,                 \* the response of the handler
    tasks                 \* the calls of create_appointment in flight at the same time

vars == <<tesseract_available, genai_installed, api_key_set, settings, req, resp, tasks>>

\* ocr_service.GEMINI_AVAILABLE and llm_service.GENAI_AVAILABLE are set by
\* the same import in the same process
GEMINI_AVAILABLE == genai_installed

GENAI_AVAILABLE == genai_installed

(***************************************************************************)
(* Text acquisition (app/services/ocr_service.py)                          *)
(***************************************************************************)
OcrOk(text, confidence) ==
    [exc |-> NoExc, msg |-> NoExc, text |-> text, confidence |-> confidence]

\* raise OCRError(msg)
OCRError(msg) ==
    [exc |-> "OCRError", msg |-> msg, text |-> <<>>, confidence |-> 0]

NO_TEXT_FOUND == <<"N","O","_","T","E","X","T","_","F","O","U","N","D">>

\* extract_text_from_raw(text)
extract_text_from_raw(text) ==
    IF Len(text) = 0 \/ Len(Strip(text)) = 0
    THEN OCRError("Empty text input provided")
    ELSE LET cleaned_text == clean_ocr_text(Strip(text))
         IN  OcrOk(cleaned_text, calculate_ocr_confidence(cleaned_text, None))

\* extract_text_with_gemini_vision(image_data); gem is what
\* model.generate_content answers: [kind |-> "error"] when it raises,
\* [kind |-> "text", text |-> t] otherwise
extract_text_with_gemini_vision(gem) ==
    IF ~GEMINI_AVAILABLE
    THEN OCRError("Gemini API not available for vision-based OCR")
    ELSE IF ~api_key_set
    THEN OCRError("GEMINI_API_KEY not configured for vision-based OCR")
    ELSE IF gem.kind = "error"
    THEN OCRError("Gemini Vision OCR failed")
    ELSE LET extracted_text == Strip(gem.text)
         IN  IF extracted_text = NO_TEXT_FOUND \/ Len(extracted_text) = 0
             THEN OCRError("No text could be extracted from the image")
             ELSE LET cleaned == clean_ocr_text(extracted_text)
                  IN  OcrOk(cleaned, calculate_ocr_confidence(cleaned, Some(85 * Unit)))

RECURSIVE SumConf(_)
SumConf(cs) == IF Len(cs) = 0 THEN 0 ELSE cs[1] * Unit + SumConf(Tail(cs))

\* the fragments of ocr_data whose stripped text is non-empty
KeptFragments(frags) == SelectSeq(frags, LAMBDA f : Len(Strip(f.text)) > 0)

\* extract_text_with_tesseract(image_data); tess is what decoding the image
\* and pytesseract.image_to_data answer: [kind |-> "error"] when one of them
\* raises, [kind |-> "data", frags |-> <<[text, conf], ...>>] otherwise, conf
\* in percent and -1 for no confidence data
extract_text_with_tesseract(tess) ==
    IF tess.kind = "error"
    THEN OCRError("Failed to process image with Tesseract")
    ELSE LET kept        == KeptFragments(tess.frags)
             texts       == [i \in 1..Len(kept) |-> Strip(kept[i].text)]
             withConf    == SelectSeq(kept, LAMBDA f : f.conf # -1)
             confidences == [i \in 1..Len(withConf) |-> withConf[i].conf]
         IN  IF Len(texts) = 0
             THEN OCRError("No text could be extracted from the image")
             ELSE LET extracted_text == Join(texts, <<" ">>)
                      ocr_confidence ==
                          IF Len(confidences) > 0
                          THEN SumConf(confidences) \div Len(confidences)
                          ELSE 70 * Unit
                      final_confidence ==
                          calculate_ocr_confidence(extracted_text, Some(ocr_confidence))
                  IN  OcrOk(clean_ocr_text(extracted_text), final_confidence)

\* extract_text_from_image(image_data)
extract_text_from_image(tess, gem) ==
    IF tesseract_available
    THEN LET r == extract_text_with_tesseract(tess)
         IN  IF r.exc = "OCRError"
             THEN IF GEMINI_AVAILABLE
                  THEN extract_text_with_gemini_vision(gem)
                  ELSE r
             ELSE r
    ELSE IF GEMINI_AVAILABLE
    THEN extract_text_with_gemini_vision(gem)
    ELSE OCRError("No OCR engine available")

(***************************************************************************)
(* Entity extraction (app/services/llm_service.py)                         *)
(*                                                                         *)
(* The text of an LLM response is a sequence of lexemes [t, k, v]:        *)
(*   fence   a ``` marker, with its optional json tag and the whitespace  *)
(*           around it                                                     *)
(*   lbrace  {          rbrace  }                                          *)
(*   prose   any other text that is not JSON; k = "auth" when the text    *)
(*           mentions AUTH or API_KEY                                      *)
(*   scalar  a JSON value that is not an object (42, null, [1])           *)
(*   member  "k": v  with its separators, v a JSON value [j, s]:          *)
(*           j = "str" with the string s, "num" or "null"                 *)
(*   key     "k":  with its separators, the object that is its value       *)
(*           following as lbrace ... rbrace                                *)
(***************************************************************************)
JNull == [j |-> "null", s |-> <<>>]

JNum == [j |-> "num", s |-> <<>>]

JStr(s) == [j |-> "str", s |-> s]

Fence == [t |-> "fence", k |-> "-", v |-> JNull]

LBrace == [t |-> "lbrace", k |-> "-", v |-> JNull]

RBrace == [t |-> "rbrace", k |-> "-", v |-> JNull]

Prose == [t |-> "prose", k |-> "-", v |-> JNull]

ProseAuth == [t |-> "prose", k |-> "auth", v |-> JNull]

Scalar == [t |-> "scalar", k |-> "-", v |-> JNull]

Member(k, v) == [t |-> "member", k |-> k, v |-> v]

\* "k": with its separators, in front of a value that is itself an object
Key(k) == [t |-> "key", k |-> k, v |-> JNull]

IsBrace(tok) == tok.t \in {"lbrace", "rbrace"}

Min(S) == CHOOSE x \in S : \A y \in S : x <= y

\* re.search(r"```(?:json)?\s*(\{.*?\})\s*```", text, re.DOTALL): the pairs
\* <<i, j>> such that a match starts at the fence i and its group is i+1..j
FencedMatches(text) ==
    {<<i, j>> \in (1..Len(text)) \X (1..Len(text)) :
        /\ text[i].t = "fence"
        /\ i + 1 <= Len(text) /\ text[i + 1].t = "lbrace"
        /\ j >= i + 2 /\ text[j].t = "rbrace"
        /\ j + 1 <= Len(text) /\ text[j + 1].t = "fence"}

\* group(1) of the leftmost match, the lazy .*? taking the nearest end
FencedGroup(text) ==
    LET ms == FencedMatches(text)
        i  == Min({m[1] : m \in ms})
        j  == Min({m[2] : m \in {n \in ms : n[1] = i}})
    IN  SubSeq(text, i + 1, j)

\* re.search(r"\{[^{}]*\}", text, re.DOTALL): the pairs <<i, j>> of a match
BraceMatches(text) ==
    {<<i, j>> \in (1..Len(text)) \X (1..Len(text)) :
        /\ text[i].t = "lbrace"
        /\ j > i /\ text[j].t = "rbrace"
        /\ \A m \in (i + 1)..(j - 1) : ~IsBrace(text[m])}

\* group(0) of the leftmost match
BraceGroup(text) ==
    LET ms == BraceMatches(text)
        i  == Min({m[1] : m \in ms})
        j  == Min({m[2] : m \in {n \in ms : n[1] = i}})
    IN  SubSeq(text, i, j)

\* the text handed to json.loads (lines 131-142)
JsonCandidate(response_text) ==
    LET text1 == IF FencedMatches(response_text) # {}
                 THEN FencedGroup(response_text)
                 ELSE response_text
    IN  IF BraceMatches(text1) # {} THEN BraceGroup(text1) ELSE text1

\* json.loads(text): "dict" for an object, "other" for another JSON value,
\* "JSONDecodeError" when text is not JSON
JsonKind(text) ==
    IF /\ Len(text) >= 2
       /\ text[1].t = "lbrace" /\ text[Len(text)].t = "rbrace"
       /\ \A m \in 2..(Len(text) - 1) : text[m].t = "member"
    THEN "dict"
    ELSE IF Len(text) = 1 /\ text[1].t = "scalar"
    THEN "other"
    ELSE "JSONDecodeError"

\* entities.get(key) on the dict of json.loads: the last member of that name
\* wins and a missing key gives None (as a JSON null does)
DictGet(text, key) ==
    LET hits == {m \in 1..Len(text) : text[m].t = "member" /\ text[m].k = key}
    IN  IF hits = {} THEN JNull
        ELSE text[CHOOSE m \in hits : \A n \in hits : n <= m].v

NullWords ==
    {<<"n","u","l","l">>, <<"n","o","n","e">>, <<"n","/","a">>, <<>>}

\* the null words compared without lower()
normalize_entity_caseSensitive(value) ==
    IF value.j = "null" THEN None
    ELSE IF value.j = "str"
    THEN LET v == Strip(value.s)
         IN  IF Len(v) = 0 \/ v \in NullWords THEN None ELSE Some(v)
    ELSE None

\* normalize_entity(value): Optional[str]
normalize_entity(value) ==
    IF value.j = "null" THEN None
    ELSE IF value.j = "str"
    THEN LET v == Strip(value.s)
         IN  IF Len(v) = 0 \/ Lower(v) \in NullWords THEN None ELSE Some(v)
    ELSE None

NoEntities == [date_phrase |-> None, time_phrase |-> None, department |-> None]

\* the message of the ExtractionError carries response_text[:200]
MentionsAuth(response_text) ==
    \E m \in 1..Len(response_text) :
        response_text[m].t = "prose" /\ response_text[m].k = "auth"

\* parse_llm_response(response_text)
parse_llm_response(response_text) ==
    LET text == JsonCandidate(response_text)
        kind == JsonKind(text)
    IN  IF kind = "JSONDecodeError"
        THEN [exc |-> "ExtractionError", auth |-> MentionsAuth(response_text),
              entities |-> NoEntities]
        ELSE IF kind = "other"
        THEN \* entities.get raises: the value is not a dict
             [exc |-> "AttributeError", auth |-> FALSE, entities |-> NoEntities]
        ELSE [exc |-> NoExc, auth |-> FALSE,
              entities |->
                [date_phrase |-> normalize_entity(DictGet(text, "date_phrase")),
                 time_phrase |-> normalize_entity(DictGet(text, "time_phrase")),
                 department  |-> normalize_entity(DictGet(text, "department"))]]

ExtractResult(exc, msg, entities, confidence, api_calls) ==
    [exc |-> exc, msg |-> msg, entities |-> entities,
     confidence |-> confidence, api_calls |-> api_calls]

\* the request sent a second time after the failure
ExtractRaised_retries(h, api_calls) ==
    ExtractResult(h.exc, h.msg, NoEntities, 0, api_calls + 1)

\* extract_entities left by the exception h after api_calls requests
ExtractRaised(h, api_calls) == ExtractResult(h.exc, h.msg, NoEntities, 0, api_calls)

\* the last clause raising ExtractionError for LLMError
ExtractHandler_wraps(exc, auth) ==
    IF exc = "LLMError" THEN [exc |-> "LLMError", msg |-> "Empty response from LLM"]
    ELSE [exc |-> "ExtractionError", msg |-> "Failed to parse LLM response as JSON"]

\* the except clauses of extract_entities (lines 105-113) for an exception
\* of class exc raised in its try block; auth: the message of the exception
\* mentions API_KEY or AUTH
ExtractHandler(exc, auth) ==
    IF exc = "LLMError" THEN [exc |-> "LLMError", msg |-> "Empty response from LLM"]
    ELSE IF exc = "JSONDecodeError"
    THEN [exc |-> "ExtractionError", msg |-> "Failed to parse LLM response as JSON"]
    ELSE IF auth
    THEN [exc |-> "LLMError", msg |-> "Authentication error with Gemini API"]
    ELSE [exc |-> "LLMError", msg |-> "LLM API error"]

\* lines 99-113: the return value of extract_entities for the result p of
\* parse_llm_response, or the except clause its exception reaches
ExtractReturn(p) ==
    IF p.exc # NoExc
    THEN ExtractRaised(ExtractHandler(p.exc, p.auth), 1)
    ELSE ExtractResult(NoExc, NoExc, p.entities,
             calculate_extraction_confidence(
                 p.entities.date_phrase # None,
                 p.entities.time_phrase # None,
                 p.entities.department # None),
             1)

\* extract_entities(raw_text); llm is what model.generate_content answers:
\* kind = "error" when it raises (auth: its message mentions API_KEY or
\* AUTH), "empty" for a missing or empty response, "text" with the lexemes
\* of response.text otherwise
extract_entities(llm) ==
    IF ~GENAI_AVAILABLE
    THEN ExtractResult("LLMError", "Google Generative AI library is not installed",
                       NoEntities, 0, 0)
    ELSE IF ~api_key_set
    THEN ExtractResult("LLMError", "GEMINI_API_KEY is not configured",
                       NoEntities, 0, 0)
    ELSE IF llm.kind = "error"
    THEN ExtractRaised(ExtractHandler("Exception", llm.auth), 1)
    ELSE IF llm.kind = "empty"
    THEN ExtractRaised(ExtractHandler("LLMError", FALSE), 1)
    ELSE ExtractReturn(parse_llm_response(llm.text))

(***************************************************************************)
(* Normalization (app/services/normalization_service.py)                   *)
(***************************************************************************)
S_Dentistry == <<"D","e","n","t","i","s","t","r","y">>

S_General_Medicine == <<"G","e","n","e","r","a","l"," ","M","e","d","i","c","i","n","e">>

S_Cardiology == <<"C","a","r","d","i","o","l","o","g","y">>

S_Dermatology == <<"D","e","r","m","a","t","o","l","o","g","y">>

S_Ophthalmology == <<"O","p","h","t","h","a","l","m","o","l","o","g","y">>

S_Orthopedics == <<"O","r","t","h","o","p","e","d","i","c","s">>

S_Pediatrics == <<"P","e","d","i","a","t","r","i","c","s">>

S_ENT == <<"E","N","T">>

S_Neurology == <<"N","e","u","r","o","l","o","g","y">>

S_Psychiatry == <<"P","s","y","c","h","i","a","t","r","y">>

S_Gynecology == <<"G","y","n","e","c","o","l","o","g","y">>

\* DEPARTMENT_MAPPING in iteration order: <<key, canonical name>>
DEPARTMENT_MAPPING ==
    <<<<<<"d","e","n","t","i","s","t">>, S_Dentistry>>,
      <<<<"d","e","n","t","a","l">>, S_Dentistry>>,
      <<<<"t","e","e","t","h">>, S_Dentistry>>,
      <<<<"t","o","o","t","h">>, S_Dentistry>>,
      <<<<"o","r","t","h","o","d","o","n","t","i","s","t">>, S_Dentistry>>,
      <<<<"d","o","c","t","o","r">>, S_General_Medicine>>,
      <<<<"p","h","y","s","i","c","i","a","n">>, S_General_Medicine>>,
      <<<<"g","p">>, S_General_Medicine>>,
      <<<<"g","e","n","e","r","a","l">>, S_General_Medicine>>,
      <<<<"c","h","e","c","k","u","p">>, S_General_Medicine>>,
      <<<<"c","h","e","c","k","-","u","p">>, S_General_Medicine>>,
      <<<<"c","o","n","s","u","l","t","a","t","i","o","n">>, S_General_Medicine>>,
      <<<<"c","a","r","d","i","o","l","o","g","i","s","t">>, S_Cardiology>>,
      <<<<"c","a","r","d","i","o","l","o","g","y">>, S_Cardiology>>,
      <<<<"h","e","a","r","t">>, S_Cardiology>>,
      <<<<"d","e","r","m","a","t","o","l","o","g","i","s","t">>, S_Dermatology>>,
      <<<<"d","e","r","m","a","t","o","l","o","g","y">>, S_Dermatology>>,
      <<<<"s","k","i","n">>, S_Dermatology>>,
      <<<<"o","p","h","t","h","a","l","m","o","l","o","g","i","s","t">>, S_Ophthalmology>>,
      <<<<"o","p","h","t","h","a","l","m","o","l","o","g","y">>, S_Ophthalmology>>,
      <<<<"e","y","e">>, S_Ophthalmology>>,
      <<<<"e","y","e","s">>, S_Ophthalmology>>,
      <<<<"o","p","t","o","m","e","t","r","i","s","t">>, S_Ophthalmology>>,
      <<<<"o","r","t","h","o","p","e","d","i","c">>, S_Orthopedics>>,
      <<<<"o","r","t","h","o","p","e","d","i","c","s">>, S_Orthopedics>>,
      <<<<"b","o","n","e">>, S_Orthopedics>>,
      <<<<"b","o","n","e","s">>, S_Orthopedics>>,
      <<<<"j","o","i","n","t","s">>, S_Orthopedics>>,
      <<<<"p","e","d","i","a","t","r","i","c","i","a","n">>, S_Pediatrics>>,
      <<<<"p","e","d","i","a","t","r","i","c","s">>, S_Pediatrics>>,
      <<<<"c","h","i","l","d">>, S_Pediatrics>>,
      <<<<"c","h","i","l","d","r","e","n">>, S_Pediatrics>>,
      <<<<"e","n","t">>, S_ENT>>,
      <<<<"e","a","r">>, S_ENT>>,
      <<<<"n","o","s","e">>, S_ENT>>,
      <<<<"t","h","r","o","a","t">>, S_ENT>>,
      <<<<"n","e","u","r","o","l","o","g","i","s","t">>, S_Neurology>>,
      <<<<"n","e","u","r","o","l","o","g","y">>, S_Neurology>>,
      <<<<"b","r","a","i","n">>, S_Neurology>>,
      <<<<"n","e","r","v","e">>, S_Neurology>>,
      <<<<"p","s","y","c","h","i","a","t","r","i","s","t">>, S_Psychiatry>>,
      <<<<"p","s","y","c","h","i","a","t","r","y">>, S_Psychiatry>>,
      <<<<"m","e","n","t","a","l">>, S_Psychiatry>>,
      <<<<"p","s","y","c","h","o","l","o","g","i","c","a","l">>, S_Psychiatry>>,
      <<<<"g","y","n","e","c","o","l","o","g","i","s","t">>, S_Gynecology>>,
      <<<<"g","y","n","e","c","o","l","o","g","y">>, S_Gynecology>>,
      <<<<"o","b","g","y","n">>, S_Gynecology>>,
      <<<<"o","b","-","g","y","n">>, S_Gynecology>>>>

\* settings.tz
TZ == "Asia/Kolkata"

Pad2(n) == <<DigitChars[((n \div 10) % 10) + 1], DigitChars[(n % 10) + 1]>>

\* date.strftime("%Y-%m-%d")
strftime_date(d) ==
    Pad2(d.y \div 100) \o Pad2(d.y % 100) \o <<"-">> \o Pad2(d.m) \o <<"-">> \o Pad2(d.d)

\* datetime.strftime("%H:%M")
strftime_time(t) == Pad2(t.h) \o <<":">> \o Pad2(t.mi)

relative_indicators ==
    <<<<"t","o","d","a","y">>, <<"t","o","m","o","r","r","o","w">>,
      <<"y","e","s","t","e","r","d","a","y">>,
      <<"n","e","x","t">>, <<"t","h","i","s">>, <<"c","o","m","i","n","g">>,
      <<"m","o","n","d","a","y">>, <<"t","u","e","s","d","a","y">>,
      <<"w","e","d","n","e","s","d","a","y">>, <<"t","h","u","r","s","d","a","y">>,
      <<"f","r","i","d","a","y">>, <<"s","a","t","u","r","d","a","y">>,
      <<"s","u","n","d","a","y">>>>

\* parse_date(date_phrase, reference_date, tz); dp is what dateparser.parse
\* answers: raises, or the Optional date of the strict pass and of the
\* lenient pass.  Returns <<Optional date, is_relative>>
parse_date(date_phrase, dp) ==
    LET date_lower  == Lower(date_phrase)
        is_relative == \E i \in DOMAIN relative_indicators :
                           IsSubstr(relative_indicators[i], date_lower)
        parsed      == IF dp.strict # None THEN dp.strict ELSE dp.lenient
    IN  IF dp.raises THEN <<None, is_relative>>
        ELSE <<parsed, is_relative>>

time_mappings ==
    <<<<<<"m","o","r","n","i","n","g">>, [h |-> 9, mi |-> 0]>>,
      <<<<"n","o","o","n">>, [h |-> 12, mi |-> 0]>>,
      <<<<"a","f","t","e","r","n","o","o","n">>, [h |-> 14, mi |-> 0]>>,
      <<<<"e","v","e","n","i","n","g">>, [h |-> 18, mi |-> 0]>>,
      <<<<"n","i","g","h","t">>, [h |-> 20, mi |-> 0]>>>>

\* lines 229-240: time_lower in time_mappings
TimeMappingHits(time_phrase) ==
    LET time_lower == Strip(Lower(time_phrase))
    IN  {i \in DOMAIN time_mappings : time_mappings[i][1] = time_lower}

\* parse_time(time_phrase, reference_date, tz); dp is what dateparser.parse
\* answers: raises, or the Optional parsed time.  Returns an Optional time
parse_time(time_phrase, dp) ==
    LET hits == TimeMappingHits(time_phrase)
    IN  IF hits # {}
        THEN Some(time_mappings[CHOOSE i \in hits : TRUE][2])
        ELSE IF dp.raises THEN None
        ELSE dp.parsed

\* `if phrase:` for an Optional[str]
Truthy(phrase) == phrase # None /\ Len(Val(phrase)) > 0

\* the return value <<normalized, confidence>> of normalize_datetime, with
\* its arguments and local variables: parsed_date as parse_date returned it,
\* date_used after the default, parsed_time and is_relative
NormResult(normalized, confidence, locals) ==
    [normalized |-> normalized, confidence |-> confidence, locals |-> locals]

\* the default without `is_relative = True`
DateDefault_keepsRelative(parsed_date, parsed_time, is_relative, now) ==
    IF parsed_date = None /\ parsed_time # None
    THEN <<Some(now.date), is_relative>>
    ELSE <<parsed_date, is_relative>>

\* lines 127-130: the date and is_relative after "use today if no date
\* provided but time is"
DateDefault(parsed_date, parsed_time, is_relative, now) ==
    IF parsed_date = None /\ parsed_time # None
    THEN <<Some(now.date), TRUE>>
    ELSE <<parsed_date, is_relative>>

\* the refusal left out
DateWithoutTime_never(parsed_date, parsed_time) == FALSE

\* lines 132-135: a date without a time is refused
DateWithoutTime(parsed_date, parsed_time) ==
    parsed_time = None /\ parsed_date # None

\* the function as it would be if it returned whatever was parsed: no
\* refusal of a date without a time and no final check of the dict
NormalizeReturn_partial(parsed_date, parsed_time, is_relative, locals) ==
    LET confidence == calculate_normalization_confidence(
                          parsed_date # None, parsed_time # None, is_relative)
        normalized ==
            [date |-> IF parsed_date # None
                      THEN Some(strftime_date(Val(parsed_date))) ELSE None,
             time |-> IF parsed_time # None
                      THEN Some(strftime_time(Val(parsed_time))) ELSE None,
             tz   |-> TZ]
    IN  NormResult(Some(normalized), confidence, locals)

\* lines 132-153: the refusal of a date without a time, the confidence, the
\* normalized dict and the return value
NormalizeReturn(parsed_date, parsed_time, is_relative, locals) ==
    IF DateWithoutTime(parsed_date, parsed_time)
    THEN NormResult(None, 0, locals)
    ELSE
    LET confidence == calculate_normalization_confidence(
                          parsed_date # None, parsed_time # None, is_relative)
        normalized ==
            [date |-> IF parsed_date # None
                      THEN Some(strftime_date(Val(parsed_date))) ELSE None,
             time |-> IF parsed_time # None
                      THEN Some(strftime_time(Val(parsed_time))) ELSE None,
             tz   |-> TZ]
    IN  IF normalized.date = None \/ normalized.time = None
        THEN NormResult(None, confidence, locals)
        ELSE NormResult(Some(normalized), confidence, locals)

\* lines 121-153: normalize_datetime after its two parses, pd being what
\* parse_date returned (<<None, False>> when it was not called) and
\* parsed_time what parse_time returned
NormalizeParsed(date_phrase, time_phrase, now, pd, parsed_time) ==
    LET dd     == DateDefault(pd[1], parsed_time, pd[2], now)
        locals == [date_phrase |-> date_phrase, time_phrase |-> time_phrase,
                   parsed_date |-> pd[1], parsed_time |-> parsed_time,
                   date_used |-> dd[1], is_relative |-> dd[2]]
    IN  IF pd[1] = None /\ parsed_time = None
        THEN NormResult(None, 0, locals)
        ELSE NormalizeReturn(dd[1], parsed_time, dd[2], locals)

\* normalize_datetime(date_phrase, time_phrase); now is datetime.now(tz),
\* dpd and dpt what dateparser answers for the date and for the time phrase
normalize_datetime(date_phrase, time_phrase, now, dpd, dpt) ==
    NormalizeParsed(date_phrase, time_phrase, now,
        IF Truthy(date_phrase) THEN parse_date(Val(date_phrase), dpd)
                               ELSE <<None, FALSE>>,
        IF Truthy(time_phrase) THEN parse_time(Val(time_phrase), dpt)
                               ELSE None)

\* the comparison made on the phrase as written, without lower()
normalize_department_caseSensitive(department) ==
    IF ~Truthy(department) THEN None
    ELSE
    LET dept_lower == Strip(Val(department))
        exact      == {i \in DOMAIN DEPARTMENT_MAPPING :
                          DEPARTMENT_MAPPING[i][1] = dept_lower}
        partial    == {i \in DOMAIN DEPARTMENT_MAPPING :
                          \/ IsSubstr(DEPARTMENT_MAPPING[i][1], dept_lower)
                          \/ IsSubstr(dept_lower, DEPARTMENT_MAPPING[i][1])}
    IN  IF exact # {}
        THEN Some(DEPARTMENT_MAPPING[CHOOSE i \in exact : TRUE][2])
        ELSE IF partial # {}
        THEN Some(DEPARTMENT_MAPPING[Min(partial)][2])
        ELSE Some(Title(Val(department)))

\* the last partial match taken for the first
normalize_department_lastMatch(department) ==
    IF ~Truthy(department) THEN None
    ELSE
    LET dept_lower == Strip(Lower(Val(department)))
        exact      == {i \in DOMAIN DEPARTMENT_MAPPING :
                          DEPARTMENT_MAPPING[i][1] = dept_lower}
        partial    == {i \in DOMAIN DEPARTMENT_MAPPING :
                          \/ IsSubstr(DEPARTMENT_MAPPING[i][1], dept_lower)
                          \/ IsSubstr(dept_lower, DEPARTMENT_MAPPING[i][1])}
    IN  IF exact # {}
        THEN Some(DEPARTMENT_MAPPING[CHOOSE i \in exact : TRUE][2])
        ELSE IF partial # {}
        THEN Some(DEPARTMENT_MAPPING[CHOOSE i \in partial : \A j \in partial : j <= i][2])
        ELSE Some(Title(Val(department)))

\* normalize_department(department): Optional[str]
normalize_department(department) ==
    IF ~Truthy(department) THEN None
    ELSE
    LET dept_lower == Strip(Lower(Val(department)))
        exact      == {i \in DOMAIN DEPARTMENT_MAPPING :
                          DEPARTMENT_MAPPING[i][1] = dept_lower}
        partial    == {i \in DOMAIN DEPARTMENT_MAPPING :
                          \/ IsSubstr(DEPARTMENT_MAPPING[i][1], dept_lower)
                          \/ IsSubstr(dept_lower, DEPARTMENT_MAPPING[i][1])}
    IN  IF exact # {}
        THEN Some(DEPARTMENT_MAPPING[CHOOSE i \in exact : TRUE][2])
        ELSE IF partial # {}
        THEN Some(DEPARTMENT_MAPPING[Min(partial)][2])
        ELSE Some(Title(Val(department)))

(***************************************************************************)
(* POST /appointment (app/routes/appointment.py)                           *)
(***************************************************************************)
\* a message: the literal text and the values formatted into it
Msg(text, args) == [text |-> text, args |-> args]

NoMsg == Msg("-", <<>>)

\* the values the handler computed on the way, kept for inspection:
\* the acquisition and extraction results and the normalization result
NoLocals ==
    [date_phrase |-> None, time_phrase |-> None,
     parsed_date |-> None, parsed_time |-> None, date_used |-> None,
     is_relative |-> FALSE]

NoTrace ==
    [ocr_confidence |-> -1, extraction_confidence |-> -1,
     entities |-> NoEntities, llm_exc |-> NoExc,
     normalized |-> None, norm_confidence |-> -1, locals |-> NoLocals]

\* the fields of the other response models
NoBody == [none |-> TRUE]

\* AppointmentOutput(appointment, status, message), sent with HTTP 200 from
\* the return statement `at`
Output(at, appointment, status, message, llm_calls, api_calls, trace) ==
    [http |-> 200, at |-> at, status |-> status, appointment |-> appointment,
     message |-> message, llm_calls |-> llm_calls, api_calls |-> api_calls,
     trace |-> trace, body |-> NoBody]

\* raise HTTPException(status_code, detail)
HTTPException(at, status_code, detail, llm_calls, api_calls, trace) ==
    [http |-> status_code, at |-> at, status |-> "-", appointment |-> None,
     message |-> detail, llm_calls |-> llm_calls, api_calls |-> api_calls,
     trace |-> trace, body |-> NoBody]

\* the OCRError clause answering with a status of its own
AppointmentHandler_errorStatus(exc, msg, llm_calls, api_calls, trace) ==
    IF exc = "OCRError"
    THEN Output("except OCRError", None, "error",
                Msg("Could not process input: ", <<msg>>), llm_calls, api_calls, trace)
    ELSE IF exc = "LLMError"
    THEN HTTPException("except LLMError", 503,
                Msg("LLM service error: ", <<msg>>), llm_calls, api_calls, trace)
    ELSE IF exc = "ExtractionError"
    THEN Output("except ExtractionError", None, "needs_clarification",
                Msg("Could not extract information: ", <<msg>>),
                llm_calls, api_calls, trace)
    ELSE IF exc \in {"AmbiguityError", "NormalizationError"}
    THEN Output("except AmbiguityError, NormalizationError", None, "needs_clarification",
                Msg("", <<msg>>), llm_calls, api_calls, trace)
    ELSE HTTPException("except Exception", 500,
                Msg("Internal error: ", <<msg>>), llm_calls, api_calls, trace)

\* the OCRError clause of routes/parse.py in the place of the pipeline's
AppointmentHandler_ocr422(exc, msg, llm_calls, api_calls, trace) ==
    IF exc = "OCRError"
    THEN HTTPException("except OCRError", 422, Msg("", <<msg>>),
                       llm_calls, api_calls, trace)
    ELSE IF exc = "LLMError"
    THEN HTTPException("except LLMError", 503,
                Msg("LLM service error: ", <<msg>>), llm_calls, api_calls, trace)
    ELSE IF exc = "ExtractionError"
    THEN Output("except ExtractionError", None, "needs_clarification",
                Msg("Could not extract information: ", <<msg>>),
                llm_calls, api_calls, trace)
    ELSE IF exc \in {"AmbiguityError", "NormalizationError"}
    THEN Output("except AmbiguityError, NormalizationError", None, "needs_clarification",
                Msg("", <<msg>>), llm_calls, api_calls, trace)
    ELSE HTTPException("except Exception", 500,
                Msg("Internal error: ", <<msg>>), llm_calls, api_calls, trace)

\* the except clauses of create_appointment (lines 109-136) for an exception
\* of class exc with message msg
AppointmentHandler(exc, msg, llm_calls, api_calls, trace) ==
    IF exc = "OCRError"
    THEN Output("except OCRError", None, "needs_clarification",
                Msg("Could not process input: ", <<msg>>), llm_calls, api_calls, trace)
    ELSE IF exc = "LLMError"
    THEN HTTPException("except LLMError", 503,
                Msg("LLM service error: ", <<msg>>), llm_calls, api_calls, trace)
    ELSE IF exc = "ExtractionError"
    THEN Output("except ExtractionError", None, "needs_clarification",
                Msg("Could not extract information: ", <<msg>>),
                llm_calls, api_calls, trace)
    ELSE IF exc \in {"AmbiguityError", "NormalizationError"}
    THEN Output("except AmbiguityError, NormalizationError", None, "needs_clarification",
                Msg("", <<msg>>), llm_calls, api_calls, trace)
    ELSE HTTPException("except Exception", 500,
                Msg("Internal error: ", <<msg>>), llm_calls, api_calls, trace)

\* lines 38-41 (and routes/parse.py 28-33): stage 1
Acquire(data, tess, gem) ==
    IF data.input_type = "text"
    THEN extract_text_from_raw(data.content)
    ELSE extract_text_from_image(tess, gem)

\* the gate with <= for <
OcrGateRejects_le(ocr_confidence) == ocr_confidence <= MIN_OCR_CONFIDENCE

\* line 44: if ocr_confidence < MIN_OCR_CONFIDENCE
OcrGateRejects(ocr_confidence) == ocr_confidence < MIN_OCR_CONFIDENCE

\* the gate with > for <
ExtractionGateRejects_inverted(extraction_confidence) ==
    extraction_confidence > MIN_EXTRACTION_CONFIDENCE

\* line 57: if extraction_confidence < MIN_EXTRACTION_CONFIDENCE
ExtractionGateRejects(extraction_confidence) ==
    extraction_confidence < MIN_EXTRACTION_CONFIDENCE

\* the check of the time testing the date phrase a second time
missing_fields_dateTwice(entities) ==
    (IF ~Truthy(entities.date_phrase) THEN <<"date">> ELSE <<>>)
    \o (IF ~Truthy(entities.date_phrase) THEN <<"time">> ELSE <<>>)
    \o (IF ~Truthy(entities.department)
        THEN <<"department/appointment type">> ELSE <<>>)

\* lines 69-75: the names of the missing fields
missing_fields(entities) ==
    (IF ~Truthy(entities.date_phrase) THEN <<"date">> ELSE <<>>)
    \o (IF ~Truthy(entities.time_phrase) THEN <<"time">> ELSE <<>>)
    \o (IF ~Truthy(entities.department)
        THEN <<"department/appointment type">> ELSE <<>>)

\* the failure branch answering with status="ok"
AppointmentResult_okOnFailure(n, department, trace) ==
    IF \/ n.normalized = None
       \/ Val(n.normalized).date = None
       \/ Val(n.normalized).time = None
    THEN Output("normalization", None, "ok",
             Msg("Could not parse date or time. Please provide a specific date and time.",
                 <<>>), 1, 1, trace)
    ELSE Output("ok",
             Some([department |-> department,
                   date |-> Val(n.normalized).date,
                   time |-> Val(n.normalized).time,
                   tz   |-> Val(n.normalized).tz]),
             "ok", NoMsg, 1, 1, trace)

\* the normalization confidence gated as well: a result scored below the
\* score of an absolute date and time is refused
AppointmentResult_gated(n, department, trace) ==
    IF \/ n.normalized = None
       \/ Val(n.normalized).date = None
       \/ Val(n.normalized).time = None
       \/ n.confidence < calculate_normalization_confidence(TRUE, TRUE, FALSE)
    THEN Output("normalization", None, "needs_clarification",
             Msg("Could not parse date or time. Please provide a specific date and time.",
                 <<>>), 1, 1, trace)
    ELSE Output("ok",
             Some([department |-> department,
                   date |-> Val(n.normalized).date,
                   time |-> Val(n.normalized).time,
                   tz   |-> Val(n.normalized).tz]),
             "ok", NoMsg, 1, 1, trace)

\* lines 87-107: the response for the result n of normalize_datetime and
\* the canonical department
AppointmentResult(n, department, trace) ==
    IF \/ n.normalized = None
       \/ Val(n.normalized).date = None
       \/ Val(n.normalized).time = None
    THEN Output("normalization", None, "needs_clarification",
             Msg("Could not parse date or time. Please provide a specific date and time.",
                 <<>>), 1, 1, trace)
    ELSE IF department = None
    THEN \* AppointmentData requires department: str
         AppointmentHandler("ValidationError", "department", 1, 1, trace)
    ELSE Output("ok",
             Some([department |-> department,
                   date |-> Val(n.normalized).date,
                   time |-> Val(n.normalized).time,
                   tz   |-> Val(n.normalized).tz]),
             "ok", NoMsg, 1, 1, trace)

\* lines 84-107: stage 3 for the result n of normalize_datetime and the
\* canonical department
AppointmentStage3(n, department, tr) ==
    AppointmentResult(n, department,
        [tr EXCEPT !.normalized = n.normalized,
                   !.norm_confidence = n.confidence,
                   !.locals = n.locals])

\* the extraction gate deciding from the product of the two scores
AppointmentStage2_product(ex, now, dpd, dpt, tr0) ==
    LET trace == [tr0 EXCEPT !.extraction_confidence = ex.confidence,
                             !.entities = ex.entities,
                             !.llm_exc = ex.exc]
    IN  IF ex.exc # NoExc
        THEN AppointmentHandler(ex.exc, ex.msg, 1, ex.api_calls, trace)
        ELSE IF ExtractionGateRejects((ex.confidence * tr0.ocr_confidence) \div 100)
        THEN Output("extraction gate", None, "needs_clarification",
                 Msg("Could not extract sufficient information. Please include date, time, and appointment type.",
                     <<>>), 1, ex.api_calls, trace)
        ELSE IF Len(missing_fields(ex.entities)) > 0
        THEN Output("missing fields", None, "needs_clarification",
                 Msg("Missing required information: ", missing_fields(ex.entities)),
                 1, ex.api_calls, trace)
        ELSE AppointmentStage3(
                 normalize_datetime(ex.entities.date_phrase, ex.entities.time_phrase,
                                    now, dpd, dpt),
                 normalize_department(ex.entities.department), trace)

\* lines 51-82: stage 2 for the result ex of extract_entities: its
\* exception, the gate and the required entities; then stage 3
AppointmentStage2(ex, now, dpd, dpt, tr0) ==
    LET trace == [tr0 EXCEPT !.extraction_confidence = ex.confidence,
                             !.entities = ex.entities,
                             !.llm_exc = ex.exc]
    IN  IF ex.exc # NoExc
        THEN AppointmentHandler(ex.exc, ex.msg, 1, ex.api_calls, trace)
        ELSE IF ExtractionGateRejects(ex.confidence)
        THEN Output("extraction gate", None, "needs_clarification",
                 Msg("Could not extract sufficient information. Please include date, time, and appointment type.",
                     <<>>), 1, ex.api_calls, trace)
        ELSE IF Len(missing_fields(ex.entities)) > 0
        THEN Output("missing fields", None, "needs_clarification",
                 Msg("Missing required information: ", missing_fields(ex.entities)),
                 1, ex.api_calls, trace)
        ELSE AppointmentStage3(
                 normalize_datetime(ex.entities.date_phrase, ex.entities.time_phrase,
                                    now, dpd, dpt),
                 normalize_department(ex.entities.department), trace)

\* lines 39-41: ocr_confidence is bound once the acquisition returned
AcquiredTrace(acq) == [NoTrace EXCEPT !.ocr_confidence = acq.confidence]

\* lines 36-49: stage 1 for the result acq of the acquisition: its
\* exception and the gate; then stage 2
AppointmentStage1(acq, llm, now, dpd, dpt) ==
    LET trace == AcquiredTrace(acq)
    IN  IF acq.exc # NoExc
        THEN AppointmentHandler(acq.exc, acq.msg, 0, 0, NoTrace)
        ELSE IF OcrGateRejects(acq.confidence)
        THEN Output("ocr gate", None, "needs_clarification",
                 Msg("Text extraction confidence too low. Please provide clearer input.",
                     <<acq.confidence>>), 0, 0, trace)
        ELSE AppointmentStage2(extract_entities(llm), now, dpd, dpt, trace)

\* create_appointment(data); tess, gem, llm, dpd, dpt are what the
\* collaborators answer when they are asked and now is the clock
create_appointment(data, tess, gem, llm, now, dpd, dpt) ==
    AppointmentStage1(Acquire(data, tess, gem), llm, now, dpd, dpt)

(***************************************************************************)
(* POST /extract, /normalize, /parse                                       *)
(***************************************************************************)
\* a response model without an appointment, sent with HTTP 200; status is
\* "-" when the model has no status field
Reply(at, status, message, body, llm_calls, api_calls, trace) ==
    [http |-> 200, at |-> at, status |-> status, appointment |-> None,
     message |-> message, llm_calls |-> llm_calls, api_calls |-> api_calls,
     trace |-> trace, body |-> body]

\* the except clauses of routes/extract.py (lines 38-43)
ExtractRouteHandler(exc, msg, api_calls, trace) ==
    IF exc = "LLMError"
    THEN HTTPException("except LLMError", 503, Msg("", <<msg>>), 1, api_calls, trace)
    ELSE IF exc = "ExtractionError"
    THEN HTTPException("except ExtractionError", 422, Msg("", <<msg>>),
                       1, api_calls, trace)
    ELSE HTTPException("except Exception", 500, Msg("Internal error: ", <<msg>>),
                       1, api_calls, trace)

\* routes/extract.py lines 33-43: the response for the result ex of the
\* service's extract_entities
ExtractReply(ex) ==
    LET trace == [NoTrace EXCEPT !.extraction_confidence = ex.confidence,
                                 !.entities = ex.entities,
                                 !.llm_exc = ex.exc]
    IN  IF ex.exc # NoExc
        THEN ExtractRouteHandler(ex.exc, ex.msg, ex.api_calls, trace)
        ELSE Reply("ok", "-", NoMsg,
                   [entities |-> ex.entities, entities_confidence |-> ex.confidence],
                   1, ex.api_calls, trace)

\* routes/extract.py extract_entities(data)
extract_route(llm) == ExtractReply(extract_entities(llm))

\* routes/normalize.py lines 36-55: the response for the result n of
\* normalize_datetime
NormalizeReply(n) ==
    LET trace == [NoTrace EXCEPT !.normalized = n.normalized,
                                 !.norm_confidence = n.confidence,
                                 !.locals = n.locals]
    IN  IF \/ n.normalized = None
           \/ Val(n.normalized).date = None
           \/ Val(n.normalized).time = None
        THEN Reply("normalization", "needs_clarification",
                 Msg("Could not parse date or time. Please provide a specific date and time.",
                     <<>>),
                 [normalized |-> None, normalization_confidence |-> n.confidence],
                 0, 0, trace)
        ELSE Reply("ok", "ok", NoMsg,
                 [normalized |-> n.normalized,
                  normalization_confidence |-> n.confidence],
                 0, 0, trace)

\* routes/normalize.py normalize_entities(data)
normalize_route(entities, now, dpd, dpt) ==
    NormalizeReply(normalize_datetime(entities.date_phrase, entities.time_phrase,
                                      now, dpd, dpt))

\* routes/parse.py lines 35-41: the response for the result acq of the
\* acquisition
ParseReply(acq) ==
    LET trace == [NoTrace EXCEPT !.ocr_confidence = acq.confidence]
    IN  IF acq.exc = "OCRError"
        THEN HTTPException("except OCRError", 422, Msg("", <<acq.msg>>), 0, 0, NoTrace)
        ELSE Reply("ok", "-", NoMsg,
                   [raw_text |-> acq.text, confidence |-> acq.confidence],
                   0, 0, trace)

\* routes/parse.py parse_input(data)
parse_route(data, tess, gem) == ParseReply(Acquire(data, tess, gem))

(***************************************************************************)
(* Requests and the answers of the collaborators                           *)
(***************************************************************************)
T_empty == <<>>

T_blank == <<" "," ">>

T_short == <<"a","b","c">>

T_noisy == <<"a","#","b","#","c","#">>

T_clean == <<"a","b","c","d","e">>

T_spaced == <<"a","b"," "," ","c","d","\n"," ","e">>

T_marked == <<"a","b","c","d","#">>

T_words == <<"a"," ","b"," ","c">>

T_both == <<"a"," ","#"," ","b">>

T_long == <<"a","b","c","d","e","f","g","h","i","j","k","l","m","n","o","p">>

P_tomorrow == <<"t","o","m","o","r","r","o","w">>

P_absolute == <<"2","0","2","5","-","0","1","-","2","5">>

P_blursday == <<"b","l","u","r","s","d","a","y">>

P_next_blursday == <<"N","e","x","t"," ","b","l","u","r","s","d","a","y">>

P_3pm == <<"3","p","m">>

P_morning == <<" ","M","o","r","n","i","n","g">>

P_soonish == <<"s","o","o","n","i","s","h">>

P_dentist == <<"d","e","n","t","i","s","t">>

P_eye_doctor == <<"e","y","e"," ","d","o","c","t","o","r">>

P_xray == <<"x","-","r","a","y"," ","l","a","b">>

P_null == <<"N","U","L","L">>

P_na == <<" ","N","/","A"," ">>

P_padded == <<" ","3","p","m"," ">>

\* the content of a text request
Texts ==
    {T_empty, T_blank, T_short, T_noisy, T_clean, T_spaced, T_marked,
     T_words, T_both, T_long}

\* the content of an image request: base64 data the model does not decode
Image == <<"i","m","g">>

AppointmentInputs ==
    [input_type : {"text"}, content : Texts]
        \cup [input_type : {"image"}, content : {Image}]

\* a collaborator that is not asked during the request answers nothing
Unasked == [kind |-> "unasked"]

Frag(text, conf) == [text |-> text, conf |-> conf]

\* what decoding the image and pytesseract.image_to_data answer
TessAnswers ==
    {[kind |-> "error", frags |-> <<>>],
     [kind |-> "data", frags |-> <<>>],
     [kind |-> "data", frags |-> <<Frag(T_blank, 90)>>],
     [kind |-> "data", frags |-> <<Frag(T_clean, 50)>>],
     [kind |-> "data", frags |-> <<Frag(T_clean, 49)>>],
     [kind |-> "data", frags |-> <<Frag(T_clean, -1)>>],
     [kind |-> "data", frags |-> <<Frag(T_short, 90), Frag(T_blank, 10), Frag(T_marked, 40)>>]}

\* what Gemini's generate_content answers to the vision prompt
GemAnswers ==
    {[kind |-> "error", text |-> <<>>],
     [kind |-> "text", text |-> NO_TEXT_FOUND],
     [kind |-> "text", text |-> T_blank],
     [kind |-> "text", text |-> T_clean],
     [kind |-> "text", text |-> T_noisy],
     [kind |-> "text", text |-> T_short]}

M_date(v) == Member("date_phrase", v)

M_time(v) == Member("time_phrase", v)

M_dept(v) == Member("department", v)

\* the texts of response.text
LlmTexts ==
    {<<Prose>>,
     <<ProseAuth>>,
     <<Prose, LBrace, Prose>>,
     <<LBrace, Prose, RBrace>>,
     <<Scalar>>,
     <<LBrace, RBrace>>,
     <<LBrace, M_date(JNull), M_time(JNull), M_dept(JNull), RBrace>>,
     <<LBrace, M_date(JStr(P_null)), M_time(JStr(T_blank)), M_dept(JStr(P_na)), RBrace>>,
     <<LBrace, M_date(JStr(P_tomorrow)), M_time(JStr(P_3pm)), M_dept(JStr(P_dentist)), RBrace>>,
     <<Prose, Fence, LBrace, M_date(JStr(P_absolute)), M_time(JStr(P_morning)),
       M_dept(JStr(P_eye_doctor)), RBrace, Fence, Prose>>,
     <<LBrace, M_date(JStr(P_next_blursday)), M_time(JStr(P_padded)),
       M_dept(JStr(P_xray)), RBrace>>,
     <<LBrace, M_date(JStr(P_tomorrow)), M_time(JNull), M_dept(JStr(P_dentist)), RBrace>>,
     <<LBrace, M_date(JNum), M_time(JStr(P_3pm)), M_dept(JStr(P_dentist)), RBrace>>,
     <<LBrace, M_time(JStr(P_soonish)), RBrace>>,
     <<LBrace, M_date(JStr(P_tomorrow)), RBrace>>,
     <<LBrace, M_dept(JStr(P_dentist)), M_date(JNull), RBrace>>,
     <<LBrace, M_date(JStr(P_absolute)), M_time(JStr(P_3pm)), M_dept(JStr(P_null)), RBrace>>,
     <<LBrace, M_date(JStr(P_blursday)), M_time(JStr(P_soonish)), M_dept(JStr(P_dentist)),
       RBrace>>}

\* what Gemini's generate_content answers to the extraction prompt
LlmAnswers ==
    {[kind |-> "error", auth |-> TRUE, text |-> <<>>],
     [kind |-> "error", auth |-> FALSE, text |-> <<>>],
     [kind |-> "empty", auth |-> FALSE, text |-> <<>>]}
        \cup {[kind |-> "text", auth |-> FALSE, text |-> t] : t \in LlmTexts}

Date(y, m, d) == [y |-> y, m |-> m, d |-> d]

Time(h, mi) == [h |-> h, mi |-> mi]

\* datetime.now(tz)
Clocks ==
    {[kind |-> "now", date |-> Date(2025, 1, 9)],
     [kind |-> "now", date |-> Date(2024, 12, 31)]}

\* what dateparser.parse answers for a date phrase
DateAnswers ==
    {[kind |-> "dp", raises |-> TRUE, strict |-> None, lenient |-> None],
     [kind |-> "dp", raises |-> FALSE, strict |-> None, lenient |-> None],
     [kind |-> "dp", raises |-> FALSE, strict |-> Some(Date(2025, 1, 10)), lenient |-> None],
     [kind |-> "dp", raises |-> FALSE, strict |-> None, lenient |-> Some(Date(2025, 1, 25))]}

\* what dateparser.parse answers for a time phrase
TimeAnswers ==
    {[kind |-> "dp", raises |-> TRUE, parsed |-> None],
     [kind |-> "dp", raises |-> FALSE, parsed |-> None],
     [kind |-> "dp", raises |-> FALSE, parsed |-> Some(Time(15, 0))]}

\* the phrases of a /normalize request
DatePhrases == {None, Some(<<>>), Some(P_tomorrow), Some(P_absolute), Some(P_next_blursday)}

TimePhrases == {None, Some(<<>>), Some(P_3pm), Some(P_morning), Some(P_soonish)}

DeptPhrases == {None, Some(P_dentist)}

NormalizeInputs ==
    [date_phrase : DatePhrases, time_phrase : TimePhrases, department : DeptPhrases]

NoData == [input_type |-> "-", content |-> <<>>]

Request(op, data, entities, tess, gem, llm, now, dpd, dpt) ==
    [op |-> op, data |-> data, entities |-> entities, tess |-> tess, gem |-> gem,
     llm |-> llm, now |-> now, dpd |-> dpd, dpt |-> dpt]

NoReq ==
    Request("-", NoData, NoEntities, Unasked, Unasked, Unasked, Unasked, Unasked, Unasked)

NoResp ==
    [http |-> 0, at |-> "-", status |-> "-", appointment |-> None,
     message |-> NoMsg, llm_calls |-> 0, api_calls |-> 0,
     trace |-> NoTrace, body |-> NoBody]

\* the collaborators a request reaches: the answers of the others stay Unasked
TessAsked(data) == data.input_type = "image" /\ tesseract_available

GemAsked(data, tess) ==
    /\ data.input_type = "image"
    /\ GEMINI_AVAILABLE /\ api_key_set
    /\ tesseract_available => extract_text_with_tesseract(tess).exc # NoExc

LlmAsked == GENAI_AVAILABLE /\ api_key_set

\* the acquisition acq lets the request into stage 2
Passed(acq) == acq.exc = NoExc /\ ~OcrGateRejects(acq.confidence)

\* the extraction ex lets the request into stage 3
NormReached(ex) ==
    /\ ex.exc = NoExc
    /\ ~ExtractionGateRejects(ex.confidence)
    /\ Len(missing_fields(ex.entities)) = 0

DateAsked(entities) == Truthy(entities.date_phrase)

TimeAsked(entities) ==
    Truthy(entities.time_phrase) /\ TimeMappingHits(Val(entities.time_phrase)) = {}

Answers(asked, S) == IF asked THEN S ELSE {Unasked}

\* Settings(): the thresholds a deployment configures, in hundredths; the
\* defaults and a deployment that sets OCR_MIN_CONFIDENCE=0.45 and
\* EXTRACTION_MIN_CONFIDENCE=0.75 in its environment
Settings(ocr, extraction, normalization) ==
    [ocr_min_confidence |-> ocr, extraction_min_confidence |-> extraction,
     normalization_min_confidence |-> normalization]

Deployments == {Settings(50, 60, 70), Settings(45, 75, 70)}

\* the frame of a call of create_appointment that is in flight: its
\* parameter data and the locals bound so far, acq = (raw_text,
\* ocr_confidence) or the exception of lines 39-41 and ex = (entities,
\* extraction_confidence) or the exception of line 54; a local that is not
\* bound yet holds the result of an empty request
NoFrame ==
    [data |-> [input_type |-> "text", content |-> <<>>],
     acq |-> OCRError(NoExc),
     ex |-> ExtractResult(NoExc, NoExc, NoEntities, 0, 0)]

\* a call in flight: where it stands, what it was sent and what its
\* collaborators answered it, its frame, and its response once it returned
NoTask == [pc |-> "idle", req |-> NoReq, locals |-> NoFrame, resp |-> NoResp]

\* the number of calls the server has in flight at the same time
MaxInFlight == 2

Slots == 1..MaxInFlight

NoTasks == [i \in Slots |-> NoTask]

(***************************************************************************)
(* The server: one request at a time is handled to completion (the        *)
(* handlers never await), then its response is sent                       *)
(***************************************************************************)
Init ==
    /\ tesseract_available \in BOOLEAN
    /\ genai_installed \in BOOLEAN
    /\ api_key_set \in BOOLEAN
    /\ settings \in Deployments
    /\ req = NoReq
    /\ resp = NoResp
    /\ tasks = NoTasks

Idle == resp.http = 0

\* the request reaches stage 3: the clock and dateparser answer, and the
\* handler runs to its response
AppointmentNormalizing(data, tess, gem, llm, reached, entities) ==
    \E now \in Answers(reached, Clocks) :
    \E dpd \in Answers(reached /\ DateAsked(entities), DateAnswers) :
    \E dpt \in Answers(reached /\ TimeAsked(entities), TimeAnswers) :
      /\ req' = Request("appointment", data, NoEntities,
                        tess, gem, llm, now, dpd, dpt)
      /\ resp' = create_appointment(data, tess, gem, llm, now, dpd, dpt)

\* the request reaches stage 2 when the acquisition passed: the LLM answers
AppointmentExtracting(data, tess, gem, passed) ==
    \E llm \in Answers(passed /\ LlmAsked, LlmAnswers) :
      AppointmentNormalizing(data, tess, gem, llm,
          passed /\ NormReached(extract_entities(llm)),
          IF passed THEN extract_entities(llm).entities ELSE NoEntities)

\* POST /appointment
PostAppointment ==
    /\ Idle
    /\ \E data \in AppointmentInputs :
       \E tess \in Answers(TessAsked(data), TessAnswers) :
       \E gem \in Answers(GemAsked(data, tess), GemAnswers) :
         AppointmentExtracting(data, tess, gem, Passed(Acquire(data, tess, gem)))
    /\ UNCHANGED <<tesseract_available, genai_installed, api_key_set, settings, tasks>>

\* POST /extract
PostExtract ==
    /\ Idle
    /\ \E text \in Texts :
       \E llm \in Answers(LlmAsked, LlmAnswers) :
         /\ req' = Request("extract", [input_type |-> "text", content |-> text],
                           NoEntities, Unasked, Unasked, llm, Unasked, Unasked, Unasked)
         /\ resp' = extract_route(llm)
    /\ UNCHANGED <<tesseract_available, genai_installed, api_key_set, settings, tasks>>

\* POST /normalize
PostNormalize ==
    /\ Idle
    /\ \E entities \in NormalizeInputs :
       \E now \in Clocks :
       \E dpd \in Answers(DateAsked(entities), DateAnswers) :
       \E dpt \in Answers(TimeAsked(entities), TimeAnswers) :
         /\ req' = Request("normalize", NoData, entities,
                           Unasked, Unasked, Unasked, now, dpd, dpt)
         /\ resp' = normalize_route(entities, now, dpd, dpt)
    /\ UNCHANGED <<tesseract_available, genai_installed, api_key_set, settings, tasks>>

\* POST /parse
PostParse ==
    /\ Idle
    /\ \E data \in AppointmentInputs :
       \E tess \in Answers(TessAsked(data), TessAnswers) :
       \E gem \in Answers(GemAsked(data, tess), GemAnswers) :
         /\ req' = Request("parse", data, NoEntities,
                           tess, gem, Unasked, Unasked, Unasked, Unasked)
         /\ resp' = parse_route(data, tess, gem)
    /\ UNCHANGED <<tesseract_available, genai_installed, api_key_set, settings, tasks>>

\* the response is sent and the objects of the request are discarded
Respond ==
    /\ ~Idle
    /\ req' = NoReq
    /\ resp' = NoResp
    /\ UNCHANGED <<tesseract_available, genai_installed, api_key_set, settings, tasks>>

Next ==
    \/ PostAppointment
    \/ PostExtract
    \/ PostNormalize
    \/ PostParse
    \/ Respond

Spec == Init /\ [][Next]_vars

(***************************************************************************)
(* Requests served at the same time (app/routes/appointment.py)            *)
(*                                                                         *)
(* Every call of create_appointment has its own frame.  A call is cut at   *)
(* the calls of the services (lines 39-41, 54, 85), which is where a       *)
(* thread per request or a handler that awaited its collaborators would    *)
(* let another call run; the steps of the calls in flight interleave in    *)
(* any order.  What the calls share is the process-wide state above: the   *)
(* import-time flags and the Settings object of get_settings(), which the  *)
(* lru_cache builds from the environment on the first call and no code     *)
(* assigns to afterwards.                                                  *)
(***************************************************************************)
\* the requests and the answers of the collaborators of the calls in flight
FlightInputs ==
    [input_type : {"text"}, content : {T_noisy, T_clean}]
        \cup [input_type : {"image"}, content : {Image}]

FlightTess ==
    {[kind |-> "error", frags |-> <<>>],
     [kind |-> "data", frags |-> <<Frag(T_clean, 50)>>]}

FlightGem ==
    {[kind |-> "text", text |-> NO_TEXT_FOUND],
     [kind |-> "text", text |-> T_clean]}

FlightLlm ==
    {[kind |-> "error", auth |-> FALSE, text |-> <<>>],
     [kind |-> "text", auth |-> FALSE,
      text |-> <<LBrace, M_date(JStr(P_tomorrow)), M_time(JNull),
                 M_dept(JStr(P_dentist)), RBrace>>],
     [kind |-> "text", auth |-> FALSE,
      text |-> <<LBrace, M_date(JStr(P_tomorrow)), M_time(JStr(P_3pm)),
                 M_dept(JStr(P_dentist)), RBrace>>]}

FlightClocks == {[kind |-> "now", date |-> Date(2025, 1, 9)]}

FlightDates ==
    {[kind |-> "dp", raises |-> FALSE, strict |-> None, lenient |-> None],
     [kind |-> "dp", raises |-> FALSE, strict |-> Some(Date(2025, 1, 10)), lenient |-> None]}

FlightTimes ==
    {[kind |-> "dp", raises |-> FALSE, parsed |-> None],
     [kind |-> "dp", raises |-> FALSE, parsed |-> Some(Time(15, 0))]}

\* the locals kept in module-level names, which every call assigns and reads
Frame_shared(ts, i) == ts[1].locals

\* the names data, raw_text, ocr_confidence, entities and
\* extraction_confidence of call i are looked up in the frame of call i
Frame(ts, i) == ts[i].locals

\* line 22: call i is entered with the request data
Receive(i) ==
    /\ tasks[i].pc = "idle"
    /\ \E data \in FlightInputs :
         tasks' = [tasks EXCEPT ![i] =
                      [pc |-> "acquire",
                       req |-> [NoReq EXCEPT !.op = "appointment", !.data = data],
                       locals |-> [NoFrame EXCEPT !.data = data],
                       resp |-> NoResp]]
    /\ UNCHANGED <<tesseract_available, genai_installed, api_key_set, settings, req, resp>>

\* lines 36-49 of call i once the acquisition returned acq: the call returns
\* from the except clause or from the gate, or goes on to stage 2
Acquiring(i, tess, gem, acq) ==
    tasks' = [tasks EXCEPT ![i].req.tess = tess,
                           ![i].req.gem = gem,
                           ![i].locals.acq = acq,
                           ![i].pc = IF Passed(acq) THEN "extract" ELSE "done",
                           ![i].resp = IF Passed(acq) THEN NoResp
                                       ELSE AppointmentStage1(acq, Unasked, Unasked,
                                                              Unasked, Unasked)]

\* stage 1 of call i: get_text_from_input(data) with the answers of the
\* OCR engines
StepAcquire(i) ==
    /\ tasks[i].pc = "acquire"
    /\ \E tess \in Answers(TessAsked(Frame(tasks, i).data), FlightTess) :
       \E gem \in Answers(GemAsked(Frame(tasks, i).data, tess), FlightGem) :
         Acquiring(i, tess, gem, Acquire(Frame(tasks, i).data, tess, gem))
    /\ UNCHANGED <<tesseract_available, genai_installed, api_key_set, settings, req, resp>>

\* lines 54-82 of call i once the extraction returned ex: the call returns
\* from an except clause, from the gate or from the check of the missing
\* fields, or goes on to stage 3
Extracting(i, llm, acq, ex) ==
    tasks' = [tasks EXCEPT ![i].req.llm = llm,
                           ![i].locals.ex = ex,
                           ![i].pc = IF NormReached(ex) THEN "normalize" ELSE "done",
                           ![i].resp = IF NormReached(ex) THEN NoResp
                                       ELSE AppointmentStage2(ex, Unasked, Unasked,
                                                Unasked, AcquiredTrace(acq))]

\* stage 2 of call i: extract_entities(raw_text) with the answer of the LLM
StepExtract(i) ==
    /\ tasks[i].pc = "extract"
    /\ \E llm \in Answers(LlmAsked, FlightLlm) :
         Extracting(i, llm, Frame(tasks, i).acq, extract_entities(llm))
    /\ UNCHANGED <<tesseract_available, genai_installed, api_key_set, settings, req, resp>>

\* stage 3 of call i, lines 85-107: normalize_datetime of the entities of
\* its frame with the clock and the answers of dateparser, then the response
StepNormalize(i) ==
    /\ tasks[i].pc = "normalize"
    /\ \E now \in FlightClocks :
       \E dpd \in Answers(DateAsked(Frame(tasks, i).ex.entities), FlightDates) :
       \E dpt \in Answers(TimeAsked(Frame(tasks, i).ex.entities), FlightTimes) :
         tasks' = [tasks EXCEPT ![i].req.now = now,
                                ![i].req.dpd = dpd,
                                ![i].req.dpt = dpt,
                                ![i].pc = "done",
                                ![i].resp = AppointmentStage2(Frame(tasks, i).ex,
                                                now, dpd, dpt,
                                                AcquiredTrace(Frame(tasks, i).acq))]
    /\ UNCHANGED <<tesseract_available, genai_installed, api_key_set, settings, req, resp>>

\* the response of call i is sent and its frame is discarded
Send(i) ==
    /\ tasks[i].pc = "done"
    /\ tasks' = [tasks EXCEPT ![i] = NoTask]
    /\ UNCHANGED <<tesseract_available, genai_installed, api_key_set, settings, req, resp>>

NextConc ==
    \E i \in Slots :
        \/ Receive(i)
        \/ StepAcquire(i)
        \/ StepExtract(i)
        \/ StepNormalize(i)
        \/ Send(i)

\* a process with the default thresholds and no request in flight
InitConc ==
    /\ tesseract_available \in BOOLEAN
    /\ genai_installed \in BOOLEAN
    /\ api_key_set \in BOOLEAN
    /\ settings = Settings(50, 60, 70)
    /\ req = NoReq
    /\ resp = NoResp
    /\ tasks = NoTasks

SpecConc == InitConc /\ [][NextConc]_vars

(***************************************************************************)
(* The functions of the services called on their own: a call binds its    *)
(* arguments, runs to its return value, and returns to the caller          *)
(***************************************************************************)
\* the longest text a call is given
MaxTextLen == 7

\* a letter, a special character and a space
ScoreAlphabet == {"a", "#", " "}

ScoreTexts == UNION {[1..n -> ScoreAlphabet] : n \in 0..MaxTextLen}

\* original_confidence: the default, Gemini Vision's 0.85, Tesseract's 0.7
\* without confidence data and averages of Tesseract's data
OriginalConfidences ==
    {None, Some(85 * Unit), Some(70 * Unit), Some(50 * Unit), Some(100 * Unit), Some(0)}

\* a process that serves no request
InitCalls ==
    /\ tesseract_available = TRUE
    /\ genai_installed = TRUE
    /\ api_key_set = TRUE
    /\ settings = Settings(50, 60, 70)
    /\ req = NoReq
    /\ resp = NoResp
    /\ tasks = NoTasks

NoCall == req.op = "-"

\* calculate_ocr_confidence(text, original_confidence)
CallOcrConfidence ==
    /\ NoCall
    /\ \E text \in ScoreTexts :
       \E original_confidence \in OriginalConfidences :
         /\ req' = [op |-> "calculate_ocr_confidence", text |-> text,
                    original_confidence |-> original_confidence]
         /\ resp' = [value |-> calculate_ocr_confidence(text, original_confidence)]
    /\ UNCHANGED <<tesseract_available, genai_installed, api_key_set, settings, tasks>>

\* the canonical names: the values of DEPARTMENT_MAPPING
Taxonomy == {DEPARTMENT_MAPPING[i][2] : i \in DOMAIN DEPARTMENT_MAPPING}

\* phrases that are no key and no canonical name
OtherDepartments ==
    {<<"e","y","e"," ","d","o","c","t","o","r">>,
     <<"x","-","r","a","y"," ","l","a","b">>,
     <<" ","D","e","n","t","i","s","t"," ">>,
     <<"H","E","A","R","T">>,
     <<" "," ">>,
     <<"a">>,
     <<"z","z">>,
     <<"k","i","d","s"," ","c","o","r","n","e","r">>,
     <<"E","a","r"," ","a","n","d"," ","N","o","s","e">>,
     <<"m","y"," ","T","E","E","T","H">>,
     <<"o","b">>,
     <<"D","e","n","t","i","s","t","r","y"," ","d","e","p","t">>,
     <<"b","o","n","e"," ","d","o","c","t","o","r">>,
     <<"s","k","i","n",","," ","e","y","e","s">>}

\* the arguments of normalize_department: nothing, the canonical names, the
\* keys and other phrases
DepartmentArgs ==
    {None, Some(<<>>)}
        \cup {Some(c) : c \in Taxonomy}
        \cup {Some(DEPARTMENT_MAPPING[i][1]) : i \in DOMAIN DEPARTMENT_MAPPING}
        \cup {Some(x) : x \in OtherDepartments}

\* normalize_department(department)
CallNormalizeDepartment ==
    /\ NoCall
    /\ \E department \in DepartmentArgs :
         /\ req' = [op |-> "normalize_department", department |-> department]
         /\ resp' = [value |-> normalize_department(department)]
    /\ UNCHANGED <<tesseract_available, genai_installed, api_key_set, settings, tasks>>

\* the longest string of EntityAlphabet a value is made of
MaxEntityLen == 4

EntityAlphabet == {"n", "N", "/", "a", "A", " "}

\* strings a collaborator may put in a field
EntityStrings ==
    UNION {[1..n -> EntityAlphabet] : n \in 0..MaxEntityLen}
        \cup {<<"N","U","L","L">>,
     <<"n","u","l","l">>,
     <<"N","o","n","e">>,
     <<" ","n","o","n","e"," ">>,
     <<"n","O","n","E">>,
     <<"n","u","l","l","x">>,
     <<"n","o"," ","n","e">>,
     <<"n","u","l","l"," ","n","u","l","l">>,
     <<" ","3","p","m"," ">>,
     <<"3","p","m">>,
     <<"N","e","x","t"," ","F","r","i","d","a","y">>,
     <<" ","N","/","A"," ">>}

\* entities.get(key): None for a missing key or a JSON null, a number, or a
\* string
EntityValues == {JNull, JNum} \cup {JStr(x) : x \in EntityStrings}

\* normalize_entity(value)
CallNormalizeEntity ==
    /\ NoCall
    /\ \E value \in EntityValues :
         /\ req' = [op |-> "normalize_entity", value |-> value]
         /\ resp' = [value |-> normalize_entity(value)]
    /\ UNCHANGED <<tesseract_available, genai_installed, api_key_set, settings, tasks>>

\* the longest generated response, in lexemes
MaxLexemes == 5

LexemeAlphabet == {Fence, LBrace, RBrace, Prose, M_date(JStr(P_tomorrow))}

\* response texts with an object as the value of a member, fenced and bare
NestedTexts ==
    {<<Fence, LBrace, M_date(JStr(P_tomorrow)), M_time(JStr(P_3pm)),
       Key("details"), LBrace, M_dept(JStr(P_dentist)), RBrace, RBrace, Fence>>,
     <<Prose, Fence, LBrace, Key("meta"), LBrace, RBrace,
       M_date(JStr(P_absolute)), M_time(JStr(P_3pm)), M_dept(JStr(P_dentist)),
       RBrace, Fence>>,
     <<LBrace, M_date(JStr(P_tomorrow)), Key("details"), LBrace,
       M_time(JStr(P_3pm)), RBrace, RBrace>>,
     <<LBrace, Prose, RBrace, Prose, Fence, LBrace, M_date(JStr(P_tomorrow)),
       M_time(JStr(P_3pm)), M_dept(JStr(P_dentist)), RBrace, Fence>>}

\* response.text: the texts the pipeline is answered with, every text of up
\* to MaxLexemes lexemes, and the texts with nested objects
ParseTexts ==
    LlmTexts \cup NestedTexts
        \cup UNION {[1..n -> LexemeAlphabet] : n \in 0..MaxLexemes}

\* parse_llm_response(response_text)
CallParseLlmResponse ==
    /\ NoCall
    /\ \E response_text \in ParseTexts :
         /\ req' = [op |-> "parse_llm_response", response_text |-> response_text]
         /\ resp' = parse_llm_response(response_text)
    /\ UNCHANGED <<tesseract_available, genai_installed, api_key_set, settings, tasks>>

\* the call returned and its frame is gone
Return ==
    /\ ~NoCall
    /\ req' = NoReq
    /\ resp' = NoResp
    /\ UNCHANGED <<tesseract_available, genai_installed, api_key_set, settings, tasks>>

NextCalls ==
    \/ CallOcrConfidence
    \/ CallNormalizeDepartment
    \/ CallNormalizeEntity
    \/ CallParseLlmResponse
    \/ Return

SpecCalls == InitCalls /\ [][NextCalls]_vars

(***************************************************************************)
(* Properties                                                              *)
(***************************************************************************)
\* a request of the operation op has been handled and its response is in resp
Handled(op) == req.op = op /\ resp.http # 0

\* normalize_datetime was called for the request that has been handled
NormCalled == resp.http # 0 /\ resp.trace.norm_confidence # -1

\* a response text with no fenced block, no closing brace and no JSON in it
NoJsonObject(text) ==
    /\ Len(text) > 0
    /\ \A m \in 1..Len(text) : text[m].t \in {"prose", "lbrace"}

\* the extraction collaborator answered the pipeline with such a text
MalformedExtraction ==
    Handled("appointment") /\ req.llm.kind = "text" /\ NoJsonObject(req.llm.text)

\* C1: in the full pipeline, a non-empty LLM response from which no JSON
\* object can be parsed ends the request with status "needs_clarification",
\* never with a hard failure.
C1_MalformedExtractionClarifies ==
    MalformedExtraction => (resp.http = 200 /\ resp.status = "needs_clarification")

\* acquisition passed its gate and extraction returned entities, all absent
AllEntitiesAbsent ==
    /\ Handled("appointment")
    /\ resp.trace.ocr_confidence # -1
    /\ resp.trace.extraction_confidence # -1
    /\ resp.trace.llm_exc = NoExc
    /\ resp.trace.entities = NoEntities

\* C2 (as stated): with all three entities absent the result is
\* "needs_clarification" with a message citing date, time and department as
\* missing, produced by the missing-field check.
C2_AllMissingCitedByFieldCheck ==
    AllEntitiesAbsent =>
        /\ resp.status = "needs_clarification"
        /\ resp.at = "missing fields"
        /\ resp.message.args = <<"date", "time", "department/appointment type">>

\* C2 (amended): with all three entities absent the result is
\* "needs_clarification" with a null appointment, produced by the extraction
\* confidence gate (score 0.40 < 0.6) with its fixed message asking for date,
\* time and appointment type; the missing-field check is not reached.
C2_AllMissingStoppedByGate ==
    AllEntitiesAbsent =>
        /\ resp.http = 200
        /\ resp.status = "needs_clarification"
        /\ resp.appointment = None
        /\ resp.trace.extraction_confidence = 40
        /\ resp.at = "extraction gate"
        /\ resp.message.text =
            "Could not extract sufficient information. Please include date, time, and appointment type."

C2_Witness ==
    /\ AllEntitiesAbsent
    /\ req.llm.kind = "text"
    /\ req.llm.text = <<LBrace, RBrace>>
    /\ resp.status = "needs_clarification"

\* C3: in the full pipeline with image input and no OCR backend available
\* (neither Tesseract nor Gemini vision) the request never ends with status
\* "needs_clarification".
C3_NoBackendNeverClarifies ==
    (/\ Handled("appointment")
     /\ req.data.input_type = "image"
     /\ ~tesseract_available
     /\ ~genai_installed)
        => resp.status # "needs_clarification"

\* the extraction collaborator was invoked and failed with an authentication
\* or transport error: library missing, key missing, API exception or empty
\* response
LlmFailed ==
    /\ resp.llm_calls = 1
    /\ \/ ~genai_installed
       \/ ~api_key_set
       \/ req.llm.kind \in {"error", "empty"}

\* C4: whenever the extraction collaborator fails with an authentication or
\* transport error, the full pipeline and the extract operation end with
\* HTTP 503, never with status "ok" or "needs_clarification".
C4_LlmFailureIs503 ==
    (req.op \in {"appointment", "extract"} /\ resp.http # 0 /\ LlmFailed)
        => (resp.http = 503 /\ resp.status \notin {"ok", "needs_clarification"})

C4_Witness ==
    /\ Handled("appointment")
    /\ LlmFailed
    /\ req.llm.kind = "error"
    /\ resp.http = 503

\* C5: in the full pipeline an acquisition confidence strictly below 0.5
\* ends the request with "needs_clarification" without any invocation of
\* the extraction collaborator; a confidence equal to 0.5 proceeds to
\* extraction.
C5_OcrGate ==
    (Handled("appointment") /\ resp.trace.ocr_confidence # -1) =>
        /\ resp.trace.ocr_confidence < 50 =>
              /\ resp.http = 200
              /\ resp.status = "needs_clarification"
              /\ resp.llm_calls = 0
              /\ resp.api_calls = 0
              /\ req.llm = Unasked
        /\ resp.trace.ocr_confidence = 50 => resp.llm_calls = 1

C5_Witness ==
    /\ Handled("appointment")
    /\ resp.trace.ocr_confidence = 49
    /\ resp.status = "needs_clarification"
    /\ resp.llm_calls = 0

\* the appointment of the response is present with all four fields non-null
FullAppointment ==
    /\ resp.appointment # None
    /\ Val(resp.appointment).department # None
    /\ Val(resp.appointment).date # None
    /\ Val(resp.appointment).time # None
    /\ Val(resp.appointment).tz # "-"

\* C6: for every pipeline outcome, status is "ok" if and only if the
\* appointment is present with department, date, time and timezone all
\* non-null, and with status "needs_clarification" the appointment is null.
C6_OkIffFullAppointment ==
    Handled("appointment") =>
        /\ resp.status = "ok" <=> FullAppointment
        /\ resp.status = "needs_clarification" => resp.appointment = None
        /\ resp.http = 200 => resp.status \in {"ok", "needs_clarification"}

C6_Witness ==
    /\ Handled("appointment")
    /\ resp.status = "ok"
    /\ FullAppointment
    /\ Val(resp.appointment).department = Some(S_Dentistry)

\* C7: normalize_datetime returns either an absent result or a result with
\* both date and time set, never exactly one of them.
C7_BothOrNeither ==
    NormCalled =>
        \/ resp.trace.normalized = None
        \/ /\ Val(resp.trace.normalized).date # None
           /\ Val(resp.trace.normalized).time # None

C7_Witness ==
    /\ NormCalled
    /\ resp.trace.locals.parsed_date # None
    /\ resp.trace.locals.parsed_time = None
    /\ resp.trace.normalized = None

\* C8: normalize_datetime returns an absent result with confidence 0.0
\* whenever a supplied phrase is unparsable, in particular when the date
\* phrase is supplied but fails to parse while the time phrase parses.
C8_UnparsablePhraseIsAbsent ==
    (/\ NormCalled
     /\ \/ /\ Truthy(resp.trace.locals.date_phrase)
           /\ resp.trace.locals.parsed_date = None
        \/ /\ Truthy(resp.trace.locals.time_phrase)
           /\ resp.trace.locals.parsed_time = None)
        => (resp.trace.normalized = None /\ resp.trace.norm_confidence = 0)

\* C9: when the date phrase parses and the time phrase is absent or
\* unparsable, normalize_datetime returns an absent result with confidence
\* exactly 0.0.
C9_DateWithoutTime ==
    (/\ NormCalled
     /\ resp.trace.locals.parsed_date # None
     /\ resp.trace.locals.parsed_time = None)
        => (resp.trace.normalized = None /\ resp.trace.norm_confidence = 0)

C9_Witness ==
    /\ NormCalled
    /\ resp.trace.locals.parsed_date # None
    /\ Truthy(resp.trace.locals.time_phrase)
    /\ resp.trace.locals.parsed_time = None
    /\ resp.trace.norm_confidence = 0

\* the current day of the clock the request read, as "%Y-%m-%d"
TodayIso ==
    IF req.now.date = Date(2025, 1, 9)
    THEN <<"2","0","2","5","-","0","1","-","0","9">>
    ELSE IF req.now.date = Date(2024, 12, 31)
    THEN <<"2","0","2","4","-","1","2","-","3","1">>
    ELSE <<>>

\* the date phrase was absent and the time phrase parsed
TimeOnly ==
    /\ NormCalled
    /\ ~Truthy(resp.trace.locals.date_phrase)
    /\ resp.trace.locals.parsed_time # None

\* C10: when the date phrase is absent and the time phrase parses,
\* normalize_datetime returns a present result whose date is the current day
\* in the configured timezone, with is_relative true and the confidence of
\* the relative-date penalty (0.9 x 0.95, rounded 0.85) instead of 0.9.
C10_TimeOnlyDefaultsToToday ==
    TimeOnly =>
        /\ resp.trace.normalized # None
        /\ Val(resp.trace.normalized).date = Some(TodayIso)
        /\ Val(resp.trace.normalized).tz = "Asia/Kolkata"
        /\ resp.trace.locals.is_relative
        /\ resp.trace.norm_confidence = 85

C10_Witness ==
    /\ TimeOnly
    /\ resp.trace.locals.date_phrase = None
    /\ resp.trace.normalized # None
    /\ Val(resp.trace.normalized).date = Some(<<"2","0","2","4","-","1","2","-","3","1">>)

\* C11: in the pipeline, once normalize_datetime has been called (all three
\* entities are present), the status is "ok" exactly when it returned a
\* result and "needs_clarification" exactly when it returned None; the
\* normalization confidence decides nothing
C11_NormalizationNotGated ==
    (Handled("appointment") /\ NormCalled) =>
        /\ (resp.status = "ok") <=> (resp.trace.normalized # None)
        /\ (resp.status = "needs_clarification") <=> (resp.trace.normalized = None)

\* a relative date with a time, the lowest score of a present result, is "ok"
C11_Witness ==
    /\ Handled("appointment") /\ NormCalled
    /\ resp.status = "ok"
    /\ resp.trace.normalized # None
    /\ resp.trace.locals.is_relative
    /\ resp.trace.norm_confidence < calculate_normalization_confidence(TRUE, TRUE, FALSE)

\* C12: POST /normalize answers "ok" only with a normalization_confidence
\* of at least MIN_NORMALIZATION_CONFIDENCE, and "needs_clarification"
\* whenever the confidence it returns is below it
C12_NormalizeRouteGated ==
    (Handled("normalize") /\ resp.http = 200) =>
        /\ resp.status = "ok" =>
               resp.body.normalization_confidence >= MIN_NORMALIZATION_CONFIDENCE
        /\ resp.body.normalization_confidence < MIN_NORMALIZATION_CONFIDENCE =>
               resp.status = "needs_clarification"

\* the lowest score of a present result: a relative date with a time is
\* "ok" with a confidence between the threshold and the absolute score
C12_Witness ==
    /\ Handled("normalize") /\ resp.http = 200
    /\ resp.status = "ok"
    /\ resp.trace.locals.is_relative
    /\ resp.body.normalization_confidence >= MIN_NORMALIZATION_CONFIDENCE
    /\ resp.body.normalization_confidence
           < calculate_normalization_confidence(TRUE, TRUE, FALSE)

\* the four operations of the routing layer
Operations == {"parse", "extract", "normalize", "appointment"}

\* C13 as stated: every operation that answers without failing returns a
\* status that is "ok" or "needs_clarification"
C13_EveryOperationHasStatus ==
    (req.op \in Operations /\ resp.http = 200) =>
        resp.status \in {"ok", "needs_clarification"}

\* C13 amended: /normalize and /appointment answer with a status that is
\* "ok" or "needs_clarification"; the responses of /parse and /extract
\* (ParseOutput, ExtractOutput) have no status field
C13_StatusWhereDeclared ==
    (req.op \in Operations /\ resp.http = 200) =>
        /\ req.op \in {"normalize", "appointment"} =>
               resp.status \in {"ok", "needs_clarification"}
        /\ req.op \in {"parse", "extract"} => resp.status = "-"

\* an image that no engine could read is answered by /appointment with
\* HTTP 200 and a status
C13_Witness ==
    /\ Handled("appointment") /\ resp.http = 200
    /\ resp.at = "except OCRError"
    /\ resp.status = "needs_clarification"

\* the acquisition of the handled /appointment request returned a score
Acquired == Handled("appointment") /\ resp.trace.ocr_confidence # -1

\* the extraction of the handled /appointment request returned a score
Extracted ==
    /\ Handled("appointment")
    /\ resp.llm_calls = 1
    /\ resp.trace.llm_exc = NoExc

\* C14: the gates of the pipeline compare the stage score with the
\* thresholds the deployment configured: the request stops at the OCR gate
\* exactly when its score is below settings.ocr_min_confidence, and at the
\* extraction gate exactly when its score is below
\* settings.extraction_min_confidence
C14_GatesUseConfiguredThresholds ==
    /\ Acquired =>
          ((resp.at = "ocr gate")
              <=> (resp.trace.ocr_confidence < settings.ocr_min_confidence))
    /\ Extracted =>
          ((resp.at = "extraction gate")
              <=> (resp.trace.extraction_confidence
                      < settings.extraction_min_confidence))

\* the number of fields the extraction of the handled request found
PresentCount ==
    FoundCount(resp.trace.entities.date_phrase # None,
               resp.trace.entities.time_phrase # None,
               resp.trace.entities.department # None)

\* the names the message has to cite: those of the absent fields, in the
\* order date, time, department
AbsentNames ==
    (IF resp.trace.entities.date_phrase = None THEN <<"date">> ELSE <<>>)
    \o (IF resp.trace.entities.time_phrase = None THEN <<"time">> ELSE <<>>)
    \o (IF resp.trace.entities.department = None
        THEN <<"department/appointment type">> ELSE <<>>)

\* C15: when extraction succeeds with one or two of the three fields, the
\* pipeline answers "needs_clarification" from the missing-field check and
\* the message names exactly the absent fields
C15_PartialNamesMissing ==
    (Extracted /\ PresentCount \in {1, 2}) =>
        /\ resp.http = 200
        /\ resp.status = "needs_clarification"
        /\ resp.appointment = None
        /\ resp.at = "missing fields"
        /\ resp.message.args = AbsentNames

\* date and department present, time absent: only the time is named
C15_Witness ==
    /\ Extracted
    /\ resp.trace.entities.date_phrase # None
    /\ resp.trace.entities.department # None
    /\ resp.trace.entities.time_phrase = None
    /\ resp.at = "missing fields"
    /\ resp.message.args = <<"time">>

\* C16: each gate decides from the score of its own stage: an acquisition
\* score of at least MIN_OCR_CONFIDENCE reaches the extraction, and an
\* extraction score of at least MIN_EXTRACTION_CONFIDENCE passes the second
\* gate, whatever the product of the two scores is
C16_GatesIndependent ==
    /\ (Acquired /\ resp.trace.ocr_confidence >= MIN_OCR_CONFIDENCE) =>
           (resp.at # "ocr gate" /\ resp.llm_calls = 1)
    /\ (Extracted /\ resp.trace.extraction_confidence >= MIN_EXTRACTION_CONFIDENCE) =>
           resp.at \in {"missing fields", "normalization", "ok"}

\* past both gates with a product of the scores below either threshold
C16_Witness ==
    /\ Extracted
    /\ resp.at \in {"missing fields", "normalization", "ok"}
    /\ resp.trace.ocr_confidence * resp.trace.extraction_confidence
           < MIN_OCR_CONFIDENCE * 100

\* the text of the handled request is empty or all whitespace
EmptyInput ==
    /\ req.data.input_type = "text"
    /\ Len(Strip(req.data.content)) = 0

\* the handled request is an image and its acquisition ends with no text
\* extracted from it
NoTextExtracted ==
    /\ req.data.input_type = "image"
    /\ Acquire(req.data, req.tess, req.gem)
           = OCRError("No text could be extracted from the image")

\* C17: an empty or all-whitespace text, and an image from which no text
\* is extracted, are answered by the pipeline's except OCRError clause with
\* HTTP 200, "needs_clarification" and the message of the error, and the
\* extraction is not invoked
C17_AcquisitionErrorsClarify ==
    (Handled("appointment") /\ (EmptyInput \/ NoTextExtracted)) =>
        /\ resp.http = 200
        /\ resp.status = "needs_clarification"
        /\ resp.appointment = None
        /\ resp.at = "except OCRError"
        /\ Len(resp.message.args) = 1
        /\ resp.llm_calls = 0
        /\ resp.api_calls = 0

\* Tesseract kept no fragment of the image and the fallback found
\* NO_TEXT_FOUND: the request is answered with a clarification
C17_Witness ==
    /\ Handled("appointment") /\ NoTextExtracted
    /\ req.tess # Unasked /\ req.gem # Unasked
    /\ resp.status = "needs_clarification"
    /\ resp.llm_calls = 0

\* generate_content raised or answered nothing for the handled request
LlmCallFailed ==
    /\ req.op \in {"appointment", "extract"}
    /\ resp.http # 0
    /\ req.llm.kind \in {"error", "empty"}

\* the acquisition of the handled /appointment request raised OCRError
AcquisitionFailed ==
    /\ Handled("appointment")
    /\ Acquire(req.data, req.tess, req.gem).exc = "OCRError"

ExtractionTable == <<40, 70, 85, 95>>

\* the number of TRUE among three flags
Trues(flags) == Cardinality({i \in 1..3 : flags[i]})

\* the handled request's extraction returned entities and a score
ExtractionReturned ==
    /\ req.op \in {"appointment", "extract"}
    /\ resp.http # 0
    /\ resp.api_calls = 1
    /\ resp.trace.llm_exc = NoExc

\* C20: the extraction score is the table 0 -> 0.40, 1 -> 0.70, 2 -> 0.85,
\* 3 -> 0.95 of the number of present fields, for all eight combinations of
\* the flags and for the score a request's extraction returns, and it never
\* decreases when the number of present fields grows
C20_ExtractionScoreTable ==
    /\ \A flags \in [1..3 -> BOOLEAN] :
          calculate_extraction_confidence(flags[1], flags[2], flags[3])
              = ExtractionTable[Trues(flags) + 1]
    /\ \A f, g \in [1..3 -> BOOLEAN] :
          Trues(f) <= Trues(g) =>
              calculate_extraction_confidence(f[1], f[2], f[3])
                  <= calculate_extraction_confidence(g[1], g[2], g[3])
    /\ ExtractionReturned =>
          resp.trace.extraction_confidence
              = ExtractionTable[Trues(<<resp.trace.entities.date_phrase # None,
                                        resp.trace.entities.time_phrase # None,
                                        resp.trace.entities.department # None>>) + 1]

\* /extract found the time and the department and not the date: 0.85
C20_Witness ==
    /\ Handled("extract") /\ ExtractionReturned
    /\ resp.trace.entities.date_phrase = None
    /\ resp.trace.entities.time_phrase # None
    /\ resp.trace.entities.department # None
    /\ resp.body.entities_confidence = 85

\* C19: requests share no mutable state: whatever the interleaving of the
\* calls in flight, the response of every call that returned is the response
\* the handler gives when it serves that request alone, with the same input,
\* the same answers of the collaborators and the same clock
C19_OutcomeAsAlone ==
    \A i \in Slots :
        tasks[i].pc = "done" =>
            tasks[i].resp =
                create_appointment(tasks[i].req.data, tasks[i].req.tess,
                    tasks[i].req.gem, tasks[i].req.llm, tasks[i].req.now,
                    tasks[i].req.dpd, tasks[i].req.dpt)

\* two calls with different requests are in flight together: the second
\* returned an appointment while the first, entered with a noisy text, has
\* assigned its own raw_text and was refused at the OCR gate
C19_Witness ==
    /\ tasks[1].pc = "done"
    /\ tasks[1].req.data.content = T_noisy
    /\ tasks[1].resp.at = "ocr gate"
    /\ tasks[2].pc = "done"
    /\ tasks[2].req.data.content = T_clean
    /\ tasks[2].resp.status = "ok"

\* the characters of text that are neither alphanumeric nor whitespace
SpecialCount(text) ==
    Cardinality({i \in 1..Len(text) : ~IsAlnum(text[i]) /\ ~IsSpace(text[i])})

\* text with the letter at position i replaced by a special character: the
\* same length and the same words' lengths, one more special character
Noisier(text, i) == [text EXCEPT ![i] = "#"]

OcrConfidenceCalled == req.op = "calculate_ocr_confidence"

\* C21: calculate_ocr_confidence returns 0 for an empty or whitespace-only
\* text, a value in [0,1] for every text, and for a non-empty text a value
\* that does not rise when the ratio of special characters rises while the
\* original confidence, the length and the words' lengths stay the same
C21_OcrScoreMonotone ==
    OcrConfidenceCalled =>
        /\ resp.value \in 0..100
        /\ Len(Strip(req.text)) = 0 => resp.value = 0
        /\ \A i \in 1..Len(req.text) :
             IsAlnum(req.text[i]) =>
                 calculate_ocr_confidence(Noisier(req.text, i), req.original_confidence)
                     <= resp.value

\* a text of seven characters with one special character (ratio 1/7, no
\* penalty) whose score drops when a second letter turns special (2/7, x0.8)
C21_Witness ==
    /\ OcrConfidenceCalled
    /\ Len(Strip(req.text)) = 7
    /\ SpecialCount(req.text) = 1
    /\ req.original_confidence = None
    /\ resp.value = 80
    /\ \E i \in 1..Len(req.text) :
         /\ IsAlnum(req.text[i])
         /\ calculate_ocr_confidence(Noisier(req.text, i), None) = 64

\* C22 as stated: the confidence normalize_datetime returns is 0 exactly
\* when neither the date nor the time parsed, and positive whenever at least
\* one of them parsed
C22_ZeroIffNeitherParsed ==
    NormCalled =>
        ((resp.trace.norm_confidence = 0) <=>
            (resp.trace.locals.parsed_date = None /\ resp.trace.locals.parsed_time = None))

\* C22: the confidence normalize_datetime returns is 0 exactly when the time
\* did not parse, whether or not the date did, and positive exactly when the
\* time parsed
C22_ZeroIffTimeUnparsed ==
    NormCalled =>
        /\ (resp.trace.norm_confidence = 0) <=> (resp.trace.locals.parsed_time = None)
        /\ (resp.trace.norm_confidence > 0) <=> (resp.trace.locals.parsed_time # None)

\* a date phrase that did not parse next to a time that did: the confidence
\* is positive
C22_Witness ==
    /\ NormCalled
    /\ Truthy(resp.trace.locals.date_phrase)
    /\ resp.trace.locals.parsed_date = None
    /\ resp.trace.locals.parsed_time # None
    /\ resp.trace.norm_confidence > 0

DepartmentCalled == req.op = "normalize_department"

\* C23: normalize_department maps every canonical name to itself, and a
\* result that is a canonical name is mapped to itself when it is
\* normalized again
C23_TaxonomyIdempotent ==
    DepartmentCalled =>
        /\ (req.department # None /\ Val(req.department) \in Taxonomy)
               => resp.value = req.department
        /\ (resp.value # None /\ Val(resp.value) \in Taxonomy)
               => normalize_department(resp.value) = resp.value

\* "Dentistry" is no key: it is mapped to itself through the partial match
\* of the key "dentist", although the later key "ent" is in it as well
C23_Witness ==
    /\ DepartmentCalled
    /\ req.department = Some(S_Dentistry)
    /\ resp.value = Some(S_Dentistry)
    /\ IsSubstr(<<"e","n","t">>, Lower(S_Dentistry))

\* the lowercased trimmed phrase of the call
DeptLower == Strip(Lower(Val(req.department)))

\* key i is in the phrase or the phrase is in key i
PartialMatch(i) ==
    \/ IsSubstr(DEPARTMENT_MAPPING[i][1], DeptLower)
    \/ IsSubstr(DeptLower, DEPARTMENT_MAPPING[i][1])

\* C24: for a non-empty phrase normalize_department returns the name mapped
\* to the key that equals the lowercased trimmed phrase; otherwise the name
\* of the first key in mapping order that is in the phrase or has the phrase
\* in it; otherwise the title-cased phrase; and it always returns a name
C24_DepartmentFirstMatch ==
    (DepartmentCalled /\ Truthy(req.department)) =>
        /\ resp.value # None
        /\ \A i \in DOMAIN DEPARTMENT_MAPPING :
             DEPARTMENT_MAPPING[i][1] = DeptLower
                 => resp.value = Some(DEPARTMENT_MAPPING[i][2])
        /\ (\A i \in DOMAIN DEPARTMENT_MAPPING : DEPARTMENT_MAPPING[i][1] # DeptLower)
             => /\ \A i \in DOMAIN DEPARTMENT_MAPPING :
                     (PartialMatch(i) /\ \A j \in 1..(i - 1) : ~PartialMatch(j))
                         => resp.value = Some(DEPARTMENT_MAPPING[i][2])
                /\ (\A i \in DOMAIN DEPARTMENT_MAPPING : ~PartialMatch(i))
                     => resp.value = Some(Title(Val(req.department)))

\* "eye doctor" has the keys "doctor" and "eye" in it and gets the category
\* of "doctor", the earlier of the two
C24_Witness ==
    /\ DepartmentCalled
    /\ req.department = Some(P_eye_doctor)
    /\ resp.value = Some(S_General_Medicine)

EntityCalled == req.op = "normalize_entity"

\* the words that stand for an absent value, in lower case
AbsentWords == {<<"n","u","l","l">>, <<"n","o","n","e">>, <<"n","/","a">>}

\* C25: normalize_entity returns None for a missing or null value, for a
\* value that is not a string, for a string that is empty once trimmed and
\* for one that is "null", "none" or "n/a" in any case; otherwise it returns
\* the trimmed string; and normalizing what it returned returns the same
C25_EntityNormalization ==
    EntityCalled =>
        /\ req.value.j # "str" => resp.value = None
        /\ req.value.j = "str" =>
             resp.value =
                 IF \/ Len(Strip(req.value.s)) = 0
                    \/ Lower(Strip(req.value.s)) \in AbsentWords
                 THEN None
                 ELSE Some(Strip(req.value.s))
        /\ resp.value = None => normalize_entity(JNull) = None
        /\ resp.value # None => normalize_entity(JStr(Val(resp.value))) = resp.value

\* " N/A " is trimmed, matches "n/a" without regard to case and is absent
C25_Witness ==
    /\ EntityCalled
    /\ req.value = JStr(<<" ","N","/","A"," ">>)
    /\ resp.value = None

ParseCalled == req.op = "parse_llm_response"

\* the number of objects that are open in front of lexeme m of text
Depth(text, m) ==
    Cardinality({n \in 1..(m - 1) : text[n].t = "lbrace"})
        - Cardinality({n \in 1..(m - 1) : text[n].t = "rbrace"})

\* text is one JSON object: it opens and closes once, holds members and
\* keys only, and every inner object is the value of the key in front of it
IsJsonObject(text) ==
    /\ Len(text) >= 2
    /\ text[1].t = "lbrace" /\ text[Len(text)].t = "rbrace"
    /\ \A m \in 2..Len(text) : Depth(text, m) >= 1
    /\ \A m \in 1..Len(text) : text[m].t \in {"lbrace", "rbrace", "member", "key"}
    /\ \A m \in 2..Len(text) : text[m].t = "lbrace" => text[m - 1].t = "key"
    /\ \A m \in 1..(Len(text) - 1) : text[m].t = "key" => text[m + 1].t = "lbrace"

\* the value of the member key of the object itself, not of an object
\* nested in it: None when it has none or when its value is not a scalar
TopGet(text, key) ==
    LET hits == {m \in 1..Len(text) :
                    /\ text[m].t \in {"member", "key"}
                    /\ text[m].k = key
                    /\ Depth(text, m) = 1}
        last == CHOOSE m \in hits : \A n \in hits : n <= m
    IN  IF hits = {} THEN JNull
        ELSE IF text[last].t = "key" THEN JNum
        ELSE text[last].v

\* the response has a fenced block that holds a JSON object
HasFencedObject(text) ==
    FencedMatches(text) # {} /\ IsJsonObject(FencedGroup(text))

\* C26: when the response has a fenced block holding a JSON object,
\* parse_llm_response returns the entities of that whole object, also when
\* braces precede the fence and when the object has an object as a value
C26_FencedObjectWins ==
    (ParseCalled /\ HasFencedObject(req.response_text)) =>
        /\ resp.exc = NoExc
        /\ resp.entities =
             [date_phrase |->
                  normalize_entity(TopGet(FencedGroup(req.response_text), "date_phrase")),
              time_phrase |->
                  normalize_entity(TopGet(FencedGroup(req.response_text), "time_phrase")),
              department |->
                  normalize_entity(TopGet(FencedGroup(req.response_text), "department"))]

\* C27: the extraction gate of the pipeline refuses a request exactly when
\* none of the three fields was extracted; the missing-field check refuses
\* only requests with one or two fields and never names all three as missing
C27_GateRejectsIffNoField ==
    Extracted =>
        /\ (resp.at = "extraction gate") <=> (PresentCount = 0)
        /\ (resp.at = "missing fields") =>
               (PresentCount \in {1, 2} /\ Len(resp.message.args) \in {1, 2})
        /\ (resp.at \in {"normalization", "ok"}) => (PresentCount = 3)

\* the LLM answered an object whose three values all stand for nothing: the
\* score is 0.40 and the gate refuses before the missing-field check
C27_Witness ==
    /\ Extracted
    /\ req.llm.text = <<LBrace, M_date(JStr(P_null)), M_time(JStr(T_blank)),
                        M_dept(JStr(P_na)), RBrace>>
    /\ PresentCount = 0
    /\ resp.trace.extraction_confidence = 40
    /\ resp.at = "extraction gate"

\* the text the handled text request is scored on: the content stripped and
\* its whitespace collapsed
CleanedText == clean_ocr_text(Strip(req.data.content))

\* the handled request is a text whose acquisition returned a score
TextAcquired ==
    /\ Acquired
    /\ req.data.input_type = "text"

\* more than 0.3 of the characters are special
RatioAbove30 == 10 * SpecialCount(CleanedText) > 3 * Len(CleanedText)

\* the ratio of special characters is in (0.15, 0.3]: the penalty x0.8
RatioPenalty ==
    /\ 100 * SpecialCount(CleanedText) > 15 * Len(CleanedText)
    /\ ~RatioAbove30

\* the average word length is under 2 or over 15: the penalty x0.7
WordPenalty ==
    \/ WordChars(CleanedText) < 2 * NumWords(CleanedText)
    \/ WordChars(CleanedText) > 15 * NumWords(CleanedText)

\* C28: a text request whose cleaned text has fewer than 5 characters or more
\* than 0.3 special characters scores below 0.5, is answered
\* "needs_clarification" at the OCR gate and never reaches extract_entities;
\* a text request that reaches extract_entities has neither of these and at
\* most one of the penalties x0.8 and x0.7
C28_TextGate ==
    TextAcquired =>
        /\ (Len(CleanedText) < 5 \/ RatioAbove30) =>
               /\ resp.trace.ocr_confidence < 50
               /\ resp.at = "ocr gate"
               /\ resp.status = "needs_clarification"
               /\ resp.llm_calls = 0
        /\ resp.llm_calls > 0 =>
               /\ Len(CleanedText) >= 5
               /\ ~RatioAbove30
               /\ ~(RatioPenalty /\ WordPenalty)

\* "a # b": five characters, one of them special, words of one character:
\* both penalties apply, 0.8 x 0.8 x 0.7 = 0.45, and the gate refuses
C28_Witness ==
    /\ TextAcquired
    /\ req.data.content = T_both
    /\ RatioPenalty /\ WordPenalty
    /\ resp.trace.ocr_confidence = 45
    /\ resp.at = "ocr gate"
    /\ resp.llm_calls = 0

====
